---- MODULE Spec2Model ----
(***************************************************************************)
(* minikv: volume storage engine (WAL, index snapshot, segmented blob      *)
(* store, bloom filter, compaction) and the coordinator's Raft node.       *)
(*                                                                         *)
(* Files are modelled record by record.  A record on disk carries the      *)
(* fields the code writes plus `n`, the number of fields that reached the  *)
(* file: a record with n below the full count is the torn tail a crash     *)
(* leaves.  n = 0 stands for a partially written magic.  Bytes that follow *)
(* a torn record are read misaligned by the parsers; a misaligned read is  *)
(* taken to fail (bad magic, short read or checksum failure), never to     *)
(* parse as a valid record.  crc32 and blake3 are taken collision free.    *)
(***************************************************************************)
EXTENDS Integers, Sequences, FiniteSets, TLC

\* ------------------------------------------------------------------------
\* Bounds of the model
\* ------------------------------------------------------------------------
MaxOps == 2          \* put/delete calls on one volume (completed or interrupted)
MaxSessions == 2     \* BlobStore::open calls on one volume
MaxFaults == 1       \* media faults (a flipped byte in a file)
\* every key and value of the model is two bytes long, or empty
ByteLen(b) == IF b = "" THEN 0 ELSE 2

Keys == {"k1", "k2"}
Values == {"v1", "v2"}
None == <<>>            \* Option::None; Some(x) is <<x>>
Some(x) == <<x>>
NoFile == <<>>          \* a file that does not exist; an existing one is <<content>>

\* ------------------------------------------------------------------------
\* Hashes and checksums
\* ------------------------------------------------------------------------
blake3_hash(data) == <<"blake3", data>>
crc32(data) == <<"crc32", data>>

\* ------------------------------------------------------------------------
\* Write-ahead log (volume/wal.rs)
\* ------------------------------------------------------------------------
WAL_MAGIC == "WAL1"
OP_PUT == 1
OP_DELETE == 2
WalFields == 8       \* magic seq op key_len val_len key value crc
WalSyncPolicy == {"Always", "Interval", "Never"}

\* the bytes the checksum of a WAL record covers
WalChecksumData(seq, op, key, val) ==
    <<seq, op, ByteLen(key), IF op = OP_PUT THEN ByteLen(val) ELSE 0, key,
      IF op = OP_PUT THEN val ELSE "">>

write_entry(seq, op, key, val) ==
    [magic |-> WAL_MAGIC, sequence |-> seq, op |-> op, key |-> key,
     value |-> IF op = OP_PUT THEN val ELSE "",
     crc |-> crc32(WalChecksumData(seq, op, key, val)), n |-> WalFields]

\* read_entry_internal at record i of the file: Some entry, None (clean end
\* of file) or Err.
read_entry_internal(file, i) ==
    IF i > Len(file) THEN [tag |-> "None"]
    ELSE LET r == file[i] IN
         IF r.n = 0
         THEN IF i = Len(file) THEN [tag |-> "None"]      \* short read of magic
              ELSE [tag |-> "Err", err |-> "Invalid WAL magic"]
         ELSE IF r.magic # WAL_MAGIC
         THEN [tag |-> "Err", err |-> "Invalid WAL magic"]
         ELSE IF r.n < WalFields
         THEN [tag |-> "Err", err |-> "Io"]                \* short read
         ELSE IF crc32(WalChecksumData(r.sequence, r.op, r.key, r.value)) # r.crc
         THEN [tag |-> "Err", err |-> "Checksum mismatch"]
         ELSE IF r.op \notin {OP_PUT, OP_DELETE}
         THEN [tag |-> "Err", err |-> "Unknown op code"]
         ELSE [tag |-> "Some",
               entry |-> [sequence |-> r.sequence, op |-> r.op,
                          key |-> r.key, value |-> r.value]]

\* Wal::replay: the entries handed to the callback, in order, and the
\* result.  The loop ends at the first None or Err; an Err is logged and the
\* call returns Ok all the same.
RECURSIVE ReplayFrom(_, _, _)
ReplayFrom(file, i, visited) ==
    LET e == read_entry_internal(file, i) IN
    IF e.tag = "Some" THEN ReplayFrom(file, i + 1, Append(visited, e.entry))
    ELSE [res |-> "Ok", visited |-> visited]

\* a replay that hands the read error to its caller
replay_returns_error(file) ==
    LET r == ReplayFrom(file, 1, <<>>) IN
    IF read_entry_internal(file, Len(r.visited) + 1).tag = "Err"
    THEN [res |-> "Err", visited |-> r.visited] ELSE r

replay(file) == ReplayFrom(file, 1, <<>>)

Max(a, b) == IF a >= b THEN a ELSE b

RECURSIVE MaxSeqFrom(_, _, _)
MaxSeqFrom(file, i, max_seq) ==
    LET e == read_entry_internal(file, i) IN
    IF e.tag = "Some"
    THEN MaxSeqFrom(file, i + 1,
                    IF max_seq = None THEN Some(Max(0, e.entry.sequence))
                    ELSE Some(Max(max_seq[1], e.entry.sequence)))
    ELSE max_seq

find_last_sequence(file) ==
    LET max_seq == MaxSeqFrom(file, 1, None) IN
    IF max_seq = None THEN 0 ELSE max_seq[1] + 1

\* ------------------------------------------------------------------------
\* Index and snapshot (volume/index.rs)
\* ------------------------------------------------------------------------
EmptyIndex == [k \in {} |-> None]

insert(idx, key, loc) ==
    [k \in DOMAIN idx \cup {key} |-> IF k = key THEN loc ELSE idx[k]]

\* a remove that forgets to drop the entry
remove_keeps_entry(idx, key) == idx

remove(idx, key) == [k \in DOMAIN idx \ {key} |-> idx[k]]

\* the clock the index reads, and the last cleanup_expired call
VARIABLES
    now,              \* SystemTime::now() since UNIX_EPOCH, in milliseconds
    cleaned           \* history: the index cleanup_expired ran on, the time it
                      \* read and the count it returned

ttlVars == <<now, cleaned>>

\* an is_expired that also counts the millisecond of expires_at itself
is_expired_at_deadline(idx, key) ==
    /\ key \in DOMAIN idx
    /\ idx[key].expires_at # None
    /\ now >= idx[key].expires_at[1]

\* Index::is_expired: the key exists, has an expires_at, and now > expires_at
is_expired(idx, key) ==
    /\ key \in DOMAIN idx
    /\ idx[key].expires_at # None
    /\ now > idx[key].expires_at[1]

get_if_valid(idx, key) ==
    IF is_expired(idx, key) THEN None
    ELSE IF key \in DOMAIN idx THEN Some(idx[key]) ELSE None

\* Index::cleanup_expired: the filter reads the clock itself and keeps the
\* keys with now > exp; they are removed and counted
cleanup_expired(idx) ==
    LET expired_keys == {k \in DOMAIN idx :
                           /\ idx[k].expires_at # None
                           /\ now > idx[k].expires_at[1]}
    IN [index |-> [k \in DOMAIN idx \ expired_keys |-> idx[k]],
        count |-> Cardinality(expired_keys)]

SNAPSHOT_MAGIC == "KVINDEX3"

\* Index::save_snapshot: the file holds expires_at as a number, 0 for none
save_snapshot_file(idx) ==
    [magic |-> SNAPSHOT_MAGIC,
     entries |-> [k \in DOMAIN idx |->
                    [shard |-> idx[k].shard, offset |-> idx[k].offset,
                     size |-> idx[k].size, blake3 |-> idx[k].blake3,
                     expires_at |-> IF idx[k].expires_at = None THEN 0
                                    ELSE idx[k].expires_at[1]]]]

load_snapshot(file) ==
    LET has_ttl == file.magic = "KVINDEX3" IN
    [k \in DOMAIN file.entries |->
        [shard |-> file.entries[k].shard, offset |-> file.entries[k].offset,
         size |-> file.entries[k].size, blake3 |-> file.entries[k].blake3,
         expires_at |-> IF has_ttl /\ file.entries[k].expires_at # 0
                        THEN Some(file.entries[k].expires_at) ELSE None]]

\* ------------------------------------------------------------------------
\* Bloom filter
\* ------------------------------------------------------------------------
\* the bits a key sets; k2's bits are among k1's, so k2 can be a false
\* positive
BloomBits(key) == IF key = "k1" THEN {0, 1} ELSE {1}
NewBloom == {}
\* a set that leaves the filter as it was
bloom_set_skipped(bl, key) == bl

bloom_set(bl, key) == bl \cup BloomBits(key)
bloom_check(bl, key) == BloomBits(key) \subseteq bl

\* ------------------------------------------------------------------------
\* Blob segments (volume/blob.rs)
\* ------------------------------------------------------------------------
BLOB_MAGIC == "BLOB"
BLOB_MAGIC_COMPRESSED == "BLOC"
SEGMENT_SIZE == 32   \* bytes; the code's 64 MiB scaled to one 32-byte record
MAX_SEGMENTS == 1000
BlobFields == 7      \* magic key_len val_len orig_len key value crc
PartialMagicBytes == 2

\* the bytes the checksum of a blob record covers
BlobChecksumData(key, write_value, orig_len) ==
    <<ByteLen(key), ByteLen(write_value), orig_len, key, write_value>>

\* bytes of a record of which the first n fields reached the file
RecordBytes(key, value, n) ==
    CASE n = 0 -> PartialMagicBytes
      [] n = 1 -> 4
      [] n = 2 -> 4 + 4
      [] n = 3 -> 4 + 4 + 8
      [] n = 4 -> 4 + 4 + 8 + 8
      [] n = 5 -> 4 + 4 + 8 + 8 + ByteLen(key)
      [] n = 6 -> 4 + 4 + 8 + 8 + ByteLen(key) + ByteLen(value)
      [] OTHER -> 4 + 4 + 8 + 8 + ByteLen(key) + ByteLen(value) + 4

ItemBytes(it) == RecordBytes(it.key, it.value, it.n)

RECURSIVE FileBytes(_)
FileBytes(f) == IF f = <<>> THEN 0 ELSE ItemBytes(Head(f)) + FileBytes(Tail(f))

\* the position in f of the record that starts at byte `off`, 0 when the file
\* ends at or before `off`
RECURSIVE ItemIndexAt(_, _, _, _)
ItemIndexAt(f, i, at, off) ==
    IF i > Len(f) THEN 0
    ELSE IF at = off THEN i
    ELSE IF at > off THEN 0
    ELSE ItemIndexAt(f, i + 1, at + ItemBytes(f[i]), off)

\* the records of f that lie wholly before byte `off`
RECURSIVE ItemsBefore(_, _, _, _)
ItemsBefore(f, i, at, off) ==
    IF i > Len(f) \/ at + ItemBytes(f[i]) > off THEN <<>>
    ELSE <<f[i]>> \o ItemsBefore(f, i + 1, at + ItemBytes(f[i]), off)

NoSegments == [s \in {} |-> <<>>]

SegmentFile(files, segment) ==
    IF segment \in DOMAIN files THEN files[segment] ELSE <<>>

blob_record(key, value, n) ==
    [magic |-> BLOB_MAGIC, key |-> key, value |-> value,
     orig_len |-> ByteLen(value),
     crc |-> crc32(BlobChecksumData(key, value, ByteLen(value))), n |-> n]

\* write_blob_to_segment with compression None: seek to offset, write the
\* framed record; the location's blake3 is the digest of the value
write_blob_to_segment(files, segment, offset, key, value) ==
    LET old == SegmentFile(files, segment)
        new == Append(ItemsBefore(old, 1, 0, offset),
                      blob_record(key, value, BlobFields))
    IN [files |-> [s \in DOMAIN files \cup {segment} |->
                      IF s = segment THEN new ELSE files[s]],
        location |-> [shard |-> segment, offset |-> offset,
                      size |-> ByteLen(value), blake3 |-> blake3_hash(value),
                      expires_at |-> None],
        bytes_written |-> 4 + 4 + 8 + 8 + ByteLen(key) + ByteLen(value) + 4]

\* write_blob: rotate when the offset exceeds SEGMENT_SIZE, then append
write_blob(files, cur_segment, cur_offset, key, value) ==
    LET rotate == cur_offset > SEGMENT_SIZE
        seg == IF rotate THEN cur_segment + 1 ELSE cur_segment
        off == IF rotate THEN 0 ELSE cur_offset
    IN IF rotate /\ seg >= MAX_SEGMENTS
       THEN [ok |-> FALSE, files |-> files, current_segment |-> seg,
             current_offset |-> off, location |-> None]
       ELSE LET w == write_blob_to_segment(files, seg, off, key, value) IN
            [ok |-> TRUE, files |-> w.files, current_segment |-> seg,
             current_offset |-> w.location.offset + w.bytes_written,
             location |-> w.location]

\* read_blob: Ok(Some(bytes)), Ok(None) or Err.  The CRC of the frame is
\* verified; location.blake3 is not consulted.
read_blob(files, location) ==
    IF location.shard \notin DOMAIN files THEN [tag |-> "None"]
    ELSE LET f == files[location.shard]
             i == ItemIndexAt(f, 1, 0, location.offset)
         IN IF i = 0 THEN [tag |-> "Err", err |-> "Io"]
            ELSE IF f[i].n = 0
            THEN IF i = Len(f) THEN [tag |-> "Err", err |-> "Io"]
                 ELSE [tag |-> "Err", err |-> "Corrupted"]
            ELSE IF f[i].magic \notin {BLOB_MAGIC, BLOB_MAGIC_COMPRESSED}
            THEN [tag |-> "Err", err |-> "Corrupted"]
            ELSE IF f[i].n < BlobFields THEN [tag |-> "Err", err |-> "Io"]
            ELSE IF crc32(BlobChecksumData(f[i].key, f[i].value, f[i].orig_len))
                       # f[i].crc
            THEN [tag |-> "Err", err |-> "ChecksumMismatch"]
            ELSE [tag |-> "Some", value |-> f[i].value]

\* scan_segment: walk the records of one segment file into index and bloom.
\* The entry's blake3 is the digest of the key; no checksum is verified.
RECURSIVE ScanFrom(_, _, _, _, _, _)
ScanFrom(idx, bl, f, segment, i, offset) ==
    IF i > Len(f) THEN [ok |-> TRUE, index |-> idx, bloom |-> bl]
    ELSE IF f[i].n = 0 \/ f[i].magic \notin {BLOB_MAGIC, BLOB_MAGIC_COMPRESSED}
    THEN [ok |-> TRUE, index |-> idx, bloom |-> bl]       \* break
    ELSE IF f[i].n < BlobFields
    THEN [ok |-> FALSE, index |-> idx, bloom |-> bl]      \* read_exact fails
    ELSE ScanFrom(insert(idx, f[i].key,
                         [shard |-> segment, offset |-> offset,
                          size |-> f[i].orig_len,
                          blake3 |-> blake3_hash(f[i].key),
                          expires_at |-> None]),
                  bloom_set(bl, f[i].key), f, segment, i + 1,
                  offset + 4 + 4 + 8 + 8 + ByteLen(f[i].key)
                         + ByteLen(f[i].value) + 4)

scan_segment(idx, bl, f, segment) == ScanFrom(idx, bl, f, segment, 1, 0)

\* rebuild_index_from_segments: scan every segment file in the order the
\* directory listing yields them (`order`, a sequence of segment numbers)
RECURSIVE rebuild_index_from_segments(_, _, _, _)
rebuild_index_from_segments(idx, bl, files, order) ==
    IF order = <<>> THEN [ok |-> TRUE, index |-> idx, bloom |-> bl]
    ELSE LET r == scan_segment(idx, bl, files[Head(order)], Head(order)) IN
         IF ~r.ok THEN r
         ELSE rebuild_index_from_segments(r.index, r.bloom, files, Tail(order))

\* the orders in which a directory listing can yield a set of segments
RECURSIVE Orders(_)
Orders(S) ==
    IF S = {} THEN {<<>>}
    ELSE UNION {{<<s>> \o o : o \in Orders(S \ {s})} : s \in S}

\* find_current_position: the highest-numbered segment and its length
find_current_position(files) ==
    IF DOMAIN files = {} THEN [segment |-> 0, offset |-> 0]
    ELSE LET m == CHOOSE s \in DOMAIN files : \A t \in DOMAIN files : t <= s
         IN [segment |-> m, offset |-> FileBytes(files[m])]

\* BlobStore::get on a store with the given index, bloom and segment files
get(idx, bl, files, key) ==
    IF ~bloom_check(bl, key) THEN [tag |-> "None"]
    ELSE LET loc == get_if_valid(idx, key) IN
         IF loc = None THEN [tag |-> "None"] ELSE read_blob(files, loc[1])

\* ------------------------------------------------------------------------
\* BlobStore::open and BlobStore::compact as functions of the files
\* ------------------------------------------------------------------------
\* the callback open hands to Wal::replay: a Put sets the key's bloom bits,
\* a Delete removes the key from the index
RECURSIVE open_replay(_, _, _)
open_replay(idx, bl, entries) ==
    IF entries = <<>> THEN [index |-> idx, bloom |-> bl]
    ELSE LET e == Head(entries) IN
         IF e.op = OP_PUT
         THEN open_replay(idx, bloom_set(bl, e.key), Tail(entries))
         ELSE open_replay(remove(idx, e.key), bl, Tail(entries))

\* the bloom bits of every key of the index
IndexBloomBits(idx) == UNION {BloomBits(k) : k \in DOMAIN idx}

\* open, lines 112-121: without a snapshot the index is rebuilt from the
\* segments, with one the bloom is topped up from the index
open_populate(snap, idx, bl, files, order) ==
    IF snap = NoFile THEN rebuild_index_from_segments(idx, bl, files, order)
    ELSE [ok |-> TRUE, index |-> idx, bloom |-> bl \cup IndexBloomBits(idx)]

open(snap, bloom_file, wal, files, order) ==
    LET index0 == IF snap # NoFile THEN load_snapshot(snap[1]) ELSE EmptyIndex
        bloom0 == IF bloom_file # NoFile THEN bloom_file[1] ELSE NewBloom
        rp == open_replay(index0, bloom0, replay(wal).visited)
        pop == open_populate(snap, rp.index, rp.bloom, files, order)
        pos == find_current_position(files)
    IN [ok |-> pop.ok, index |-> pop.index, bloom |-> pop.bloom,
        next_sequence |-> find_last_sequence(wal),
        current_segment |-> pos.segment, current_offset |-> pos.offset]

\* paths of compact(), as sequences of components
data_path == <<"data">>
temp_path == data_path \o <<"compact_temp">>
backup_path == data_path \o <<"compact_backup">>

IsPrefix(p, q) == Len(p) <= Len(q) /\ SubSeq(q, 1, Len(p)) = p

\* a rename that moves a directory into itself
rename_never_fails(old, new) == FALSE

\* fs::rename of a directory: EINVAL when the new path lies inside the old
rename_fails(old, new) == old # new /\ IsPrefix(old, new)

\* compact, lines 214-229: copy every readable live blob into fresh
\* segments under temp_path, in the iteration order of the index
RECURSIVE compact_copy(_, _, _, _, _, _, _)
compact_copy(idx, files, keys, new_index, new_files, new_segment, new_offset) ==
    IF keys = <<>>
    THEN [index |-> new_index, files |-> new_files,
          segment |-> new_segment, offset |-> new_offset]
    ELSE LET key == Head(keys)
             r == read_blob(files, idx[key])
         IN IF r.tag # "Some"
            THEN compact_copy(idx, files, Tail(keys), new_index, new_files,
                              new_segment, new_offset)
            ELSE LET w == write_blob_to_segment(new_files, new_segment,
                                                new_offset, key, r.value)
                     off == new_offset + w.bytes_written
                 IN compact_copy(idx, files, Tail(keys),
                                 insert(new_index, key, w.location), w.files,
                                 IF off > SEGMENT_SIZE THEN new_segment + 1
                                 ELSE new_segment,
                                 IF off > SEGMENT_SIZE THEN 0 ELSE off)

\* ------------------------------------------------------------------------
\* State of one volume: files, the open handle, and history variables
\* ------------------------------------------------------------------------
VARIABLES
    walFile,          \* wal.log: the records that reached the file
    segFiles,         \* segment number -> records of seg_NNNN.blob
    snapFile,         \* index.snap
    bloomFile,        \* bloom.filter
    compact_temp,     \* the directory compact_temp exists; no code path reads its files
    isOpen,           \* a handle (BlobStore, or a bare Wal) exists
    index,            \* BlobStore.index
    bloom,            \* BlobStore.bloom
    current_segment,  \* BlobStore.current_segment
    current_offset,   \* BlobStore.current_offset
    next_sequence,    \* Wal.next_sequence
    walBuf,           \* records held in the Wal's BufWriter
    sync_policy,      \* Wal.sync_policy
    lastOp,           \* history: the last call, and its outcome
    lastRes,
    shadow,           \* history: key -> what get must answer in this session
    pre,              \* history: key -> what get answered when the last session ended
    down,             \* history: how the last session ended
    snapFresh,        \* history: save_snapshot was the last mutating call
    lastSeq,          \* history: the sequence number the last append returned
    prevMax,          \* history: the largest sequence number returned before it
    unsynced,         \* history: a crash lost records the BufWriter still held
    dirty,            \* history: a torn write or media fault has happened
    ops, sessions, faults

diskVars == <<walFile, segFiles, snapFile, bloomFile, compact_temp>>
walMem == <<next_sequence, walBuf, sync_policy>>
storeMem == <<index, bloom, current_segment, current_offset>>
storeHist == <<shadow, pre, down, snapFresh>>
walHist == <<lastSeq, prevMax, unsynced, faults>>
storeVars == <<diskVars, isOpen, walMem, storeMem, storeHist, walHist, lastOp,
               lastRes, dirty, ops, sessions>>

\* the coordinators (coordinator/raft_node.rs): one RaftNode per node
VARIABLES
    role,             \* RaftNode.role
    term,             \* RaftNode.term
    voted_for,        \* RaftNode.voted_for
    leader_id,        \* RaftNode.leader_id
    election,         \* the locals of a running start_election_and_collect_votes
    ballot            \* history: the term and the candidate of the last vote
                      \* the node gave

raftVars == <<role, term, voted_for, leader_id, election, ballot>>

\* the replicated log of the coordinators (coordinator/raft_node.rs)
VARIABLES
    log,              \* RaftNode.log
    commit_index,     \* RaftNode.commit_index
    last_applied,     \* RaftNode.last_applied
    self_peers,       \* RaftNode.peers (self.peers)
    replicated        \* history: the last call of replicate and its outcome

replVars == <<log, commit_index, last_applied, self_peers, replicated>>

\* the network between the coordinators
VARIABLES
    isolated          \* the coordinators a partition cut off from the others

\* one call of PlacementManager::select_volumes (coordinator/placement.rs)
VARIABLES
    place_key,        \* argument key
    place_volumes,    \* argument volumes, as the metadata store lists them
    place_replicas,   \* PlacementManager.replicas
    place_result      \* what the call returned, None before it

placeVars == <<place_key, place_volumes, place_replicas, place_result>>

\* the two-phase uploads of a volume (volume/grpc.rs)
VARIABLES
    uploads,          \* VolumeGrpcService.uploads: upload_id -> UploadState
    rpc               \* history: the last two calls and their responses

grpcVars == <<uploads, rpc>>

\* the HTTP API of the coordinators (coordinator/http.rs)
VARIABLES
    http              \* history: the last mutation request and its response

httpVars == <<http>>

\* an Index saved to a snapshot file and loaded back (volume/index.rs)
VARIABLES
    snap_index,       \* the Index that save_snapshot is called on
    snap_path,        \* the file at `path`, None before it is written
    snap_loaded       \* what load_snapshot returned, None before the call

snapVars == <<snap_index, snap_path, snap_loaded>>

\* the replicas of a key while the set of nodes changes (common/hash.rs)
VARIABLES
    hrw_key,          \* argument key of select_replicas
    hrw_n,            \* argument n
    hrw_nodes,        \* argument nodes: the nodes there are now
    hrw_selected,     \* what the last call returned, None before the first
    hrw_last          \* history: the last change of nodes, and what the call
                      \* before it had been given and had returned

hrwVars == <<hrw_key, hrw_n, hrw_nodes, hrw_selected, hrw_last>>

\* the calls that are made on a value of their own
callVars == <<snapVars, hrwVars>>

\* one RaftNode driven through its methods, and its task (raft_node.rs)
VARIABLES
    snapshot,         \* RaftNode.snapshot
    last_heartbeat,   \* start_raft_tasks: the sleeps of 50 ms since the Instant
                      \* of the local last_heartbeat
    quiet,            \* history: the sleeps since the node last accepted an
                      \* AppendEntries
    called            \* history: the last call of a handler or of
                      \* apply_snapshot, the node as it was before, the answer

nodeVars == <<snapshot, last_heartbeat, quiet, called>>

\* the Mutex fields of one RaftNode and the threads that call its methods
VARIABLES
    mutex,            \* field -> the thread that holds its std::sync::Mutex
    thread            \* thread -> the method it runs and its position in it

lockVars == <<mutex, thread>>

\* commit and abort calls of the volume's gRPC service running concurrently
VARIABLES
    committing,       \* task -> the UploadState a commit took out of the map
                      \* and verified, None when the task runs no commit
    tally             \* history, per upload_id: who removed the prepared
                      \* state, the puts made and the answers given for it

raceVars == <<committing, tally>>

extraVars == <<isolated, placeVars, grpcVars, httpVars, callVars, nodeVars, ttlVars,
              lockVars, raceVars>>

\* what the calls on a volume's store leave alone, what the elections do,
\* and what the coordinators do
beyondStore == <<raftVars, replVars, extraVars>>
beyondRaft == <<storeVars, replVars, extraVars>>
beyondCoord == <<storeVars, extraVars>>
\* what a partition, a call of select_volumes, the calls of a volume's gRPC
\* service (which reach into its store) and an HTTP request leave alone
beyondNet == <<storeVars, raftVars, replVars, placeVars, grpcVars, httpVars,
               callVars, nodeVars, ttlVars, lockVars, raceVars>>
beyondPlace == <<storeVars, raftVars, replVars, isolated, grpcVars, httpVars,
                 callVars, nodeVars, ttlVars, lockVars, raceVars>>
beyondGrpc == <<raftVars, replVars, isolated, placeVars, httpVars, callVars,
                nodeVars, ttlVars, lockVars, raceVars>>
beyondHttp == <<storeVars, raftVars, replVars, isolated, placeVars, grpcVars,
                callVars, nodeVars, ttlVars, lockVars, raceVars>>
beyondCalls == <<storeVars, raftVars, replVars, isolated, placeVars, grpcVars,
                 httpVars, nodeVars, ttlVars, lockVars, raceVars>>
\* what a call on a RaftNode leaves alone
beyondNode == <<storeVars, isolated, placeVars, grpcVars, httpVars, callVars,
                ttlVars, lockVars, raceVars>>
\* what a store call that reads the clock, and the clock, leave alone
beyondTtl == <<raftVars, replVars, isolated, placeVars, grpcVars, httpVars,
               callVars, nodeVars, lockVars, raceVars>>
\* what taking and releasing the mutexes of a RaftNode leaves alone
beyondLocks == <<storeVars, raftVars, replVars, isolated, placeVars, grpcVars,
                 httpVars, callVars, nodeVars, ttlVars, raceVars>>
\* what the concurrent commit and abort calls leave alone
beyondRace == <<raftVars, replVars, isolated, placeVars, httpVars, callVars,
                nodeVars, ttlVars, lockVars>>

\* what a bare Wal does not touch
storeOnly == <<segFiles, snapFile, bloomFile, compact_temp, storeMem, storeHist>>

vars == <<storeVars, raftVars, replVars, extraVars>>

\* ------------------------------------------------------------------------
\* Coordinators
\* ------------------------------------------------------------------------
Nodes == {"node1", "node2", "node3"}
MaxTerm == 1         \* elections are started below this term

\* the other coordinators of the cluster, as a peer list
Peers(n) ==
    IF n = "node1" THEN <<"node2", "node3">>
    ELSE IF n = "node2" THEN <<"node1", "node3">> ELSE <<"node1", "node2">>

\* the peer lists start_election_and_collect_votes is called with: node.peers,
\* which RaftNode::new leaves empty, or the rest of the cluster
PeerLists(n) == {<<>>, Peers(n)}

\* no election running on the node
Idle == [active |-> FALSE, new_term |-> 0, votes |-> 0, peers |-> <<>>, next |-> 1]

\* replicate has not been called
NotReplicated ==
    [node |-> "", leader |-> FALSE, res |-> "none", acks |-> 0, index |-> 0,
     commit |-> 0, grew |-> FALSE]

\* no handler has been called
NoCall == [op |-> "none"]

\* the node has given no vote
NoBallot == [term |-> 0, for |-> ""]

\* the Mutex fields of RaftNode (lines 32-42) and the threads calling it
Mutexes == {"role", "term", "voted_for", "leader_id", "log", "peers",
            "commit_index", "last_applied", "snapshot"}
Threads == {"t1", "t2"}
Free == "free"

\* a thread between two calls
Resting == [op |-> "none", pc |-> 0]

\* RaftNode::new, and the first lines of the task of start_raft_tasks
RaftInit ==
    /\ role = [n \in Nodes |-> "Follower"]
    /\ term = [n \in Nodes |-> 0]
    /\ voted_for = [n \in Nodes |-> None]
    /\ ballot = [n \in Nodes |-> NoBallot]
    /\ leader_id = [n \in Nodes |-> None]
    /\ election = [n \in Nodes |-> Idle]
    /\ log = [n \in Nodes |-> <<>>]
    /\ commit_index = [n \in Nodes |-> 0]
    /\ last_applied = [n \in Nodes |-> 0]
    /\ self_peers = [n \in Nodes |-> <<>>]
    /\ replicated = NotReplicated
    /\ isolated = {}
    /\ snapshot = [n \in Nodes |-> None]
    /\ last_heartbeat = [n \in Nodes |-> 0]
    /\ quiet = [n \in Nodes |-> 0]
    /\ called = NoCall
    /\ mutex = [m \in Mutexes |-> Free]
    /\ thread = [t \in Threads |-> Resting]

\* ------------------------------------------------------------------------
\* Placement (coordinator/placement.rs, common/hash.rs, common/utils.rs)
\* ------------------------------------------------------------------------
PlaceKeys == {"k1", "k2"}
VolumeIds == {"vol-1", "vol-2", "vol-3"}
NodeState == {"Alive", "Suspect", "Dead", "Draining"}
PlaceReplicas == {2, 3}

\* NodeState::is_healthy, widened to the states of can_read
is_healthy_or_draining(state) == state \in {"Alive", "Draining"}

\* NodeState::is_healthy
is_healthy(state) == state = "Alive"

\* the first 8 bytes of blake3 as a number: the strings that are hashed, in
\* ascending order of that number (distinct strings, distinct numbers)
Blake3Order ==
    <<"k1vol-2", "k2vol-1", "k1vol-3", "k2vol-3", "k1vol-4", "k1vol-1",
      "k2vol-2", "k2vol-4">>
blake3_u64(bytes) == CHOOSE i \in DOMAIN Blake3Order : Blake3Order[i] = bytes

\* weights.sort_by(|a, b| b.1.cmp(&a.1)): a stable sort, descending weight
RECURSIVE SortInsert(_, _)
SortInsert(sorted, x) ==
    IF sorted = <<>> THEN <<x>>
    ELSE IF Head(sorted)[2] >= x[2]
         THEN <<Head(sorted)>> \o SortInsert(Tail(sorted), x)
         ELSE <<x>> \o sorted
RECURSIVE SortByWeight(_, _)
SortByWeight(weights, sorted) ==
    IF weights = <<>> THEN sorted
    ELSE SortByWeight(Tail(weights), SortInsert(sorted, Head(weights)))

\* hrw_hash with the sort left out
hrw_hash_unsorted(key, nodes) == nodes

\* hrw_hash(key, nodes)
hrw_hash(key, nodes) ==
    LET weights == [i \in DOMAIN nodes |->
                       <<nodes[i], blake3_u64(key \o nodes[i])>>]
        sorted == SortByWeight(weights, <<>>)
    IN [i \in DOMAIN sorted |-> sorted[i][1]]

\* select_replicas that takes the lightest nodes of an even number of nodes
select_replicas_of_parity(key, nodes, n) ==
    LET sorted == hrw_hash(key, nodes)
        m == IF n < Len(sorted) THEN n ELSE Len(sorted)
    IN IF Len(nodes) % 2 = 0
       THEN SubSeq(sorted, Len(sorted) - m + 1, Len(sorted))
       ELSE SubSeq(sorted, 1, m)

\* select_replicas(key, nodes, n)
select_replicas(key, nodes, n) ==
    LET sorted == hrw_hash(key, nodes) IN
    SubSeq(sorted, 1, IF n < Len(sorted) THEN n ELSE Len(sorted))

\* volumes.iter().filter(|v| v.state.is_healthy()).map(|v| v.volume_id)
RECURSIVE HealthyIds(_)
HealthyIds(volumes) ==
    IF volumes = <<>> THEN <<>>
    ELSE (IF is_healthy(Head(volumes).state)
          THEN <<Head(volumes).volume_id>> ELSE <<>>)
         \o HealthyIds(Tail(volumes))

\* PlacementManager::select_volumes(key, volumes)
select_volumes(replicas, key, volumes) ==
    LET Err(tag, needed, available) ==
            [tag |-> tag, volumes |-> <<>>, needed |-> needed,
             available |-> available]
        healthy == HealthyIds(volumes)
        selected == select_replicas(key, healthy, replicas)
    IN IF volumes = <<>> THEN Err("NoHealthyVolumes", 0, 0)
       ELSE IF healthy = <<>> THEN Err("NoHealthyVolumes", 0, 0)
       ELSE IF Len(selected) < replicas
            THEN Err("InsufficientReplicas", replicas, Len(selected))
            ELSE [tag |-> "Ok", volumes |-> selected, needed |-> 0,
                  available |-> 0]

\* the lists of volumes a metadata store can hand out: every volume id at
\* most once, each in some state
VolumeLists ==
    {l \in UNION {[1..n -> [volume_id : VolumeIds, state : NodeState]] :
                     n \in 0..Cardinality(VolumeIds)} :
        \A i, j \in DOMAIN l : i # j => l[i].volume_id # l[j].volume_id}

\* no call of select_volumes is modelled: one fixed input
PlaceIdle ==
    /\ place_key = "k1" /\ place_volumes = <<>> /\ place_replicas = 3
    /\ place_result = None

Blank == [k \in Keys |-> [tag |-> "None"]]
NoDown == [how |-> "none", policy |-> "Always", snap |-> FALSE]

\* what get answers for every key in the current state
GetAll == [k \in Keys |-> get(index, bloom, segFiles, k)]

\* a WAL record as it lies in the file, the first n fields written: `ok` is
\* history, FALSE once the record is torn or damaged; no operator of the
\* program reads it
OnDisk(rec, n) ==
    [magic |-> IF n >= 1 THEN rec.magic ELSE "",
     sequence |-> IF n >= 2 THEN rec.sequence ELSE 0,
     op |-> IF n >= 3 THEN rec.op ELSE 0,
     key |-> IF n >= 6 THEN rec.key ELSE "",
     value |-> IF n >= 7 THEN rec.value ELSE "",
     crc |-> IF n >= 8 THEN rec.crc ELSE <<>>,
     n |-> n, ok |-> n = WalFields]

\* no cleanup_expired call yet
NoCleanup == [before |-> EmptyIndex, at |-> 0, count |-> 0]

\* an empty volume, no handle open
StoreInit ==
    /\ walFile = <<>> /\ segFiles = NoSegments /\ snapFile = NoFile
    /\ bloomFile = NoFile /\ compact_temp = FALSE
    /\ isOpen = FALSE /\ index = EmptyIndex /\ bloom = NewBloom
    /\ current_segment = 0 /\ current_offset = 0 /\ next_sequence = 0
    /\ walBuf = <<>> /\ sync_policy = "Always"
    /\ lastOp = "init" /\ lastRes = "Ok"
    /\ shadow = Blank /\ pre = Blank /\ down = NoDown /\ snapFresh = FALSE
    /\ lastSeq = -1 /\ prevMax = -1 /\ unsynced = FALSE /\ dirty = FALSE
    /\ ops = 0 /\ sessions = 0 /\ faults = 0
    /\ now = 0 /\ cleaned = NoCleanup

\* no call made yet
NoRpc == [op |-> "none", id |-> "", ok |-> FALSE, key |-> "", blob |-> "",
          prepared |-> FALSE]

\* the tasks that run the service's handlers at the same time
Tasks == {"c1", "c2"}

\* nothing has happened to an upload_id
NoTally == [prepared |-> FALSE, removed_by |-> "none", puts |-> 0, oks |-> 0,
            misses |-> 0]

\* VolumeGrpcService::new
GrpcInit ==
    /\ uploads = [u \in {"u1", "u2"} |-> None]
    /\ rpc = <<NoRpc, NoRpc>>
    /\ committing = [c \in Tasks |-> None]
    /\ tally = [u \in {"u1", "u2"} |-> NoTally]

\* no request made yet
NoRequest == [node |-> "", op |-> "none", key |-> "", role |-> "", status |-> 0,
              targets |-> <<>>, unreachable |-> {}]

\* no Index saved or loaded
SnapIdle == snap_index = EmptyIndex /\ snap_path = None /\ snap_loaded = None

\* no change of the nodes since the last call of select_replicas
NoChange == [change |-> "none", node |-> "", nodes |-> <<>>, selected |-> <<>>]

\* no call of select_replicas is followed: one fixed input
HrwIdle ==
    /\ hrw_key = "k1" /\ hrw_n = 1 /\ hrw_nodes = <<>>
    /\ hrw_selected = None /\ hrw_last = NoChange

\* none of the calls that are made on a value of their own is running
CallIdle == SnapIdle /\ HrwIdle

Init ==
    /\ StoreInit
    /\ RaftInit
    /\ GrpcInit
    /\ PlaceIdle
    /\ http = NoRequest
    /\ CallIdle

\* the handle is gone: memory goes back to its blank values
Dropped ==
    /\ isOpen' = FALSE /\ index' = EmptyIndex /\ bloom' = NewBloom
    /\ current_segment' = 0 /\ current_offset' = 0 /\ next_sequence' = 0
    /\ walBuf' = <<>> /\ shadow' = Blank /\ snapFresh' = FALSE

\* Wal::maybe_sync: Always and Interval flush the BufWriter to the file
maybe_sync(policy, file, buf) ==
    IF policy \in {"Always", "Interval"}
    THEN [file |-> file \o buf, buf |-> <<>>]
    ELSE [file |-> file, buf |-> buf]

\* Wal::append_put / append_delete: the record goes to the BufWriter, then
\* maybe_sync
wal_append(policy, file, buf, sequence, op, key, value) ==
    maybe_sync(policy, file,
               Append(buf, OnDisk(write_entry(sequence, op, key, value), WalFields)))

\* the sync policy the volume of the model is configured with
StorePolicies == {"Always"}

\* BlobStore::open(data_path, wal_path, sync_policy)
Open(policy) ==
    /\ ~isOpen /\ sessions < MaxSessions
    /\ \E order \in Orders(DOMAIN segFiles) :
         LET r == open(snapFile, bloomFile, walFile, segFiles, order) IN
         IF r.ok
         THEN /\ isOpen' = TRUE /\ index' = r.index /\ bloom' = r.bloom
              /\ current_segment' = r.current_segment
              /\ current_offset' = r.current_offset
              /\ next_sequence' = r.next_sequence
              /\ sync_policy' = policy
              /\ lastRes' = "Ok"
              /\ shadow' = [k \in Keys |-> get(r.index, r.bloom, segFiles, k)]
         ELSE /\ lastRes' = "Err"
              /\ UNCHANGED <<isOpen, storeMem, next_sequence, sync_policy, shadow>>
    /\ lastOp' = "open" /\ sessions' = sessions + 1
    /\ UNCHANGED <<beyondStore, diskVars, walBuf, pre, down, snapFresh, walHist, dirty, ops>>

\* BlobStore::put_with_ttl(key, value, ttl_ms) on the volume's variables:
\* the location write_blob returns gets expires_at = now + ttl when a TTL
\* is given (line 177)
put_with_ttl(key, value, ttl_ms) ==
    /\ isOpen /\ ops < MaxOps
    /\ LET w == wal_append(sync_policy, walFile, walBuf, next_sequence, OP_PUT, key, value)
           b == write_blob(segFiles, current_segment, current_offset, key, value)
           location == IF ttl_ms = None THEN b.location
                       ELSE [b.location EXCEPT !.expires_at = Some(now + ttl_ms[1])]
       IN /\ walFile' = w.file /\ walBuf' = w.buf
          /\ next_sequence' = next_sequence + 1
          /\ bloom' = bloom_set(bloom, key)
          /\ segFiles' = b.files
          /\ current_segment' = b.current_segment
          /\ current_offset' = b.current_offset
          /\ IF b.ok
             THEN /\ index' = insert(index, key, location)
                  /\ lastRes' = "Ok"
                  /\ shadow' = [shadow EXCEPT ![key] = [tag |-> "Some", value |-> value]]
             ELSE /\ lastRes' = "Err"
                  /\ UNCHANGED <<index, shadow>>
    /\ lastOp' = "call" /\ snapFresh' = FALSE /\ ops' = ops + 1
    /\ pre' = Blank /\ down' = NoDown
    /\ UNCHANGED <<snapFile, bloomFile, compact_temp, isOpen, sync_policy, walHist,
                   dirty, sessions>>

\* BlobStore::put(key, value) = put_with_ttl(key, value, None)
PutStore(key, value) == put_with_ttl(key, value, None)

\* a call of BlobStore::put on an open store
Put(key, value) ==
    /\ PutStore(key, value)
    /\ UNCHANGED beyondStore

\* BlobStore::delete(key)
Delete(key) ==
    /\ isOpen /\ ops < MaxOps
    /\ LET w == wal_append(sync_policy, walFile, walBuf, next_sequence, OP_DELETE, key, "")
       IN walFile' = w.file /\ walBuf' = w.buf
    /\ next_sequence' = next_sequence + 1
    /\ index' = remove(index, key)
    /\ shadow' = [shadow EXCEPT ![key] = [tag |-> "None"]]
    /\ lastOp' = "call" /\ lastRes' = "Ok" /\ snapFresh' = FALSE
    /\ ops' = ops + 1
    /\ pre' = Blank /\ down' = NoDown
    /\ UNCHANGED <<beyondStore, segFiles, snapFile, bloomFile, compact_temp, isOpen, bloom,
                   current_segment, current_offset, sync_policy, walHist, dirty,
                   sessions>>

\* BlobStore::save_snapshot
SaveSnapshot ==
    /\ isOpen
    /\ snapFile' = <<save_snapshot_file(index)>>
    /\ bloomFile' = <<bloom>>
    /\ lastOp' = "call" /\ lastRes' = "Ok" /\ snapFresh' = TRUE
    /\ pre' = Blank /\ down' = NoDown
    /\ UNCHANGED <<beyondStore, walFile, segFiles, compact_temp, isOpen, walMem, storeMem, shadow,
                   walHist, dirty, ops, sessions>>

\* BlobStore::compact(), the index iterated in the order `keys`
Compact ==
    /\ isOpen
    /\ \E keys \in Orders(DOMAIN index) :
         LET c == compact_copy(index, segFiles, keys, EmptyIndex, NoSegments, 0, 0) IN
         IF rename_fails(data_path, backup_path)
         THEN \* line 232 returns the error; compact_temp stays behind
              /\ compact_temp' = TRUE
              /\ lastRes' = "Err"
              /\ UNCHANGED <<walFile, segFiles, snapFile, bloomFile, index,
                             current_segment, current_offset, next_sequence,
                             walBuf, snapFresh>>
         ELSE \* lines 233-241: swap, snapshot, truncate the WAL
              /\ segFiles' = c.files /\ compact_temp' = FALSE
              /\ index' = c.index
              /\ current_segment' = c.segment /\ current_offset' = c.offset
              /\ snapFile' = <<save_snapshot_file(c.index)>>
              /\ bloomFile' = <<bloom>>
              /\ walFile' = <<>> /\ walBuf' = <<>> /\ next_sequence' = 0
              /\ snapFresh' = TRUE
              /\ lastRes' = "Ok"
    /\ lastOp' = "compact"
    /\ pre' = GetAll /\ down' = NoDown
    /\ UNCHANGED <<beyondStore, isOpen, bloom, sync_policy, shadow, walHist, dirty, ops,
                   sessions>>

\* how a session ends, recorded for the open that follows
Ended(how) ==
    /\ pre' = GetAll
    /\ down' = [how |-> how, policy |-> sync_policy, snap |-> snapFresh]
    /\ lastOp' = how /\ lastRes' = "Ok"

\* the store is dropped: the BufWriter of the WAL flushes on drop
Close ==
    /\ isOpen /\ sessions < MaxSessions
    /\ walFile' = walFile \o walBuf
    /\ Dropped /\ Ended("close")
    /\ UNCHANGED <<beyondStore, segFiles, snapFile, bloomFile, compact_temp, sync_policy,
                   walHist, dirty, ops, sessions>>

\* the process dies between two calls: what the BufWriter holds is lost
Crash ==
    /\ isOpen /\ sessions < MaxSessions
    /\ Dropped /\ Ended("crash")
    /\ UNCHANGED <<beyondStore, diskVars, sync_policy, walHist, dirty, ops, sessions>>

WalTears == {0, 1}     \* fields of the WAL record a crash leaves behind
StoreWalTears == {1}
BlobTears == {0, 1}    \* fields of the blob record a crash leaves behind

\* a blob record of which only the first n fields reached the file
TornBlob(rec, n) ==
    [magic |-> IF n >= 1 THEN rec.magic ELSE "",
     key |-> IF n >= 5 THEN rec.key ELSE "",
     value |-> IF n >= 6 THEN rec.value ELSE "",
     orig_len |-> IF n >= 4 THEN rec.orig_len ELSE 0,
     crc |-> IF n >= 7 THEN rec.crc ELSE <<>>, n |-> n]

\* the last record of a segment file cut down to its first n fields
Tear(files, segment, n) ==
    [files EXCEPT ![segment] = [@ EXCEPT ![Len(@)] = TornBlob(@, n)]]

\* the process dies inside put, while the WAL record is flushed (line 163)
CrashInPutWal(key, value, n) ==
    /\ isOpen /\ ops < MaxOps /\ sync_policy # "Never" /\ sessions < MaxSessions
    /\ walFile' = walFile \o walBuf \o
                  <<OnDisk(write_entry(next_sequence, OP_PUT, key, value), n)>>
    /\ Dropped /\ Ended("crashInPut")
    /\ dirty' = TRUE /\ ops' = ops + 1
    /\ UNCHANGED <<beyondStore, segFiles, snapFile, bloomFile, compact_temp, sync_policy,
                   walHist, sessions>>

\* the process dies inside put after the WAL append, while the segment
\* record is written (line 169)
CrashInPutSegment(key, value, n) ==
    /\ isOpen /\ ops < MaxOps /\ sessions < MaxSessions
    /\ LET w == wal_append(sync_policy, walFile, walBuf, next_sequence, OP_PUT, key, value)
           b == write_blob(segFiles, current_segment, current_offset, key, value)
       IN /\ b.ok
          /\ walFile' = w.file
          /\ segFiles' = Tear(b.files, b.current_segment, n)
    /\ Dropped /\ Ended("crashInPut")
    /\ dirty' = TRUE /\ ops' = ops + 1
    /\ UNCHANGED <<beyondStore, snapFile, bloomFile, compact_temp, sync_policy, walHist, sessions>>

\* the process dies inside save_snapshot, between index.snap and
\* bloom.filter (lines 248-249)
CrashInSnapshot ==
    /\ isOpen /\ sessions < MaxSessions
    /\ snapFile' = <<save_snapshot_file(index)>>
    /\ Dropped /\ Ended("crashInSnapshot")
    /\ UNCHANGED <<beyondStore, walFile, segFiles, bloomFile, compact_temp, sync_policy, walHist,
                   dirty, ops, sessions>>

\* the process dies inside compact, after the copy and before the rename
CrashInCompact ==
    /\ isOpen /\ sessions < MaxSessions
    /\ compact_temp' = TRUE
    /\ Dropped /\ Ended("crashInCompact")
    /\ UNCHANGED <<beyondStore, walFile, segFiles, snapFile, bloomFile, sync_policy, walHist,
                   dirty, ops, sessions>>

StoreNext ==
    \/ \E policy \in StorePolicies : Open(policy)
    \/ \E key \in Keys, value \in Values : Put(key, value)
    \/ \E key \in Keys : Delete(key)
    \/ SaveSnapshot
    \/ Compact
    \/ Close
    \/ Crash
    \/ \E key \in Keys, value \in Values, n \in StoreWalTears : CrashInPutWal(key, value, n)
    \/ \E key \in Keys, value \in Values, n \in BlobTears : CrashInPutSegment(key, value, n)
    \/ CrashInSnapshot
    \/ CrashInCompact

SpecStore == Init /\ [][StoreNext]_vars

\* ------------------------------------------------------------------------
\* Keys with a TTL: put_with_ttl, the clock, cleanup_expired and compact
\* ------------------------------------------------------------------------
MaxNow == 2          \* milliseconds the clock advances
MaxTtl == 1          \* largest ttl_ms given to put_with_ttl

Ttls == {None} \cup {Some(t) : t \in 0..MaxTtl}
TtlValues == {"v1"}

\* a call of BlobStore::put_with_ttl on an open store
PutWithTtl(key, value, ttl_ms) ==
    /\ put_with_ttl(key, value, ttl_ms)
    /\ UNCHANGED beyondStore

\* a millisecond passes
Tick ==
    /\ now < MaxNow
    /\ now' = now + 1
    /\ UNCHANGED <<storeVars, beyondTtl, cleaned>>

\* BlobStore::cleanup_expired (lines 262-264): Index::cleanup_expired on
\* the store's index
CleanupExpired ==
    /\ isOpen
    /\ LET c == cleanup_expired(index)
       IN /\ index' = c.index
          /\ cleaned' = [before |-> index, at |-> now, count |-> c.count]
    /\ lastOp' = "cleanup" /\ lastRes' = "Ok"
    /\ pre' = Blank /\ down' = NoDown
    /\ UNCHANGED <<beyondTtl, now, diskVars, isOpen, walMem, bloom, current_segment,
                   current_offset, shadow, snapFresh, walHist, dirty, ops, sessions>>

TtlNext ==
    \/ \E policy \in StorePolicies : Open(policy)
    \/ \E key \in Keys, value \in TtlValues, ttl_ms \in Ttls : PutWithTtl(key, value, ttl_ms)
    \/ Tick
    \/ CleanupExpired
    \/ Compact

SpecTtl == Init /\ [][TtlNext]_vars

\* ------------------------------------------------------------------------
\* A write-ahead log used on its own (Wal::open, append, sync, truncate)
\* ------------------------------------------------------------------------
MaxWalSessions == 3  \* Wal::open calls on one log
MaxWalOps == 3       \* appends to one log (completed or interrupted)

\* the keys and values appended to the bare log: the log does not look into
\* them
WalKeys == {"k1"}
WalValues == {"v1"}

\* Wal::open(path, sync_policy)
WalOpen(policy) ==
    /\ ~isOpen /\ sessions < MaxWalSessions
    /\ isOpen' = TRUE /\ next_sequence' = find_last_sequence(walFile)
    /\ walBuf' = <<>> /\ sync_policy' = policy
    /\ lastOp' = "open" /\ lastRes' = "Ok" /\ sessions' = sessions + 1
    /\ UNCHANGED <<walFile, walHist, dirty, ops, storeOnly, beyondStore>>

\* write_entry and maybe_sync, then next_sequence += 1: the sequence number
\* returned is the one the record carries
WalAppend(op, key, value) ==
    /\ LET w == wal_append(sync_policy, walFile, walBuf, next_sequence, op, key, value)
       IN walFile' = w.file /\ walBuf' = w.buf
    /\ next_sequence' = next_sequence + 1
    /\ prevMax' = Max(prevMax, lastSeq) /\ lastSeq' = next_sequence
    /\ lastOp' = "append" /\ lastRes' = "Ok" /\ ops' = ops + 1
    /\ UNCHANGED <<isOpen, sync_policy, unsynced, faults, dirty, sessions,
                   storeOnly, beyondStore>>

\* Wal::append_put(key, value)
WalAppendPut(key, value) ==
    /\ isOpen /\ ops < MaxWalOps
    /\ WalAppend(OP_PUT, key, value)

\* Wal::append_delete(key)
WalAppendDelete(key) ==
    /\ isOpen /\ ops < MaxWalOps
    /\ WalAppend(OP_DELETE, key, "")

\* Wal::sync
WalSync ==
    /\ isOpen /\ walBuf # <<>>
    /\ walFile' = walFile \o walBuf /\ walBuf' = <<>>
    /\ lastOp' = "sync" /\ lastRes' = "Ok"
    /\ UNCHANGED <<isOpen, next_sequence, sync_policy, walHist, dirty, ops,
                   sessions, storeOnly, beyondStore>>

\* Wal::truncate: the file is emptied and the numbering starts over
WalTruncate ==
    /\ isOpen /\ walFile \o walBuf # <<>>
    /\ walFile' = <<>> /\ walBuf' = <<>> /\ next_sequence' = 0
    /\ lastSeq' = -1 /\ prevMax' = -1
    /\ lastOp' = "truncate" /\ lastRes' = "Ok"
    /\ UNCHANGED <<isOpen, sync_policy, unsynced, faults, dirty, ops, sessions,
                   storeOnly, beyondStore>>

\* the Wal is dropped: its BufWriter flushes
WalClose ==
    /\ isOpen /\ sessions < MaxWalSessions
    /\ walFile' = walFile \o walBuf /\ walBuf' = <<>>
    /\ isOpen' = FALSE /\ next_sequence' = 0
    /\ lastOp' = "close" /\ lastRes' = "Ok"
    /\ UNCHANGED <<sync_policy, walHist, dirty, ops, sessions, storeOnly, beyondStore>>

\* the process dies between two calls: what the BufWriter holds is lost
WalCrash ==
    /\ isOpen /\ sessions < MaxWalSessions
    /\ walBuf' = <<>> /\ isOpen' = FALSE /\ next_sequence' = 0
    /\ unsynced' = (unsynced \/ walBuf # <<>>)
    /\ lastOp' = "crash" /\ lastRes' = "Ok"
    /\ UNCHANGED <<walFile, sync_policy, lastSeq, prevMax, faults, dirty, ops,
                   sessions, storeOnly, beyondStore>>

\* the process dies inside an append while the record is flushed: the first
\* n fields of the record reach the file
WalCrashInAppend(key, value, n) ==
    /\ isOpen /\ ops < MaxWalOps /\ sessions < MaxWalSessions
    /\ sync_policy # "Never"
    /\ walFile' = walFile \o walBuf \o
                  <<OnDisk(write_entry(next_sequence, OP_PUT, key, value), n)>>
    /\ walBuf' = <<>> /\ isOpen' = FALSE /\ next_sequence' = 0
    /\ dirty' = TRUE /\ ops' = ops + 1
    /\ lastOp' = "crash" /\ lastRes' = "Ok"
    /\ UNCHANGED <<sync_policy, walHist, sessions, storeOnly, beyondStore>>

\* what a media fault does to a record of the file
Damaged(rec, what) ==
    CASE what = "magic" -> [rec EXCEPT !.magic = "XAL1", !.ok = FALSE]
      [] what = "key" -> [rec EXCEPT !.key = "??", !.ok = FALSE]
      [] OTHER -> [rec EXCEPT !.crc = crc32("??"), !.ok = FALSE]

\* a media fault damages record i of the log while no process holds it
CorruptWal(i, what) ==
    /\ ~isOpen /\ faults < MaxFaults
    /\ i \in DOMAIN walFile /\ walFile[i].n = WalFields /\ walFile[i].ok
    /\ walFile' = [walFile EXCEPT ![i] = Damaged(@, what)]
    /\ faults' = faults + 1
    /\ lastOp' = "fault" /\ lastRes' = "Ok"
    /\ UNCHANGED <<isOpen, walMem, lastSeq, prevMax, unsynced, dirty, ops,
                   sessions, storeOnly, beyondStore>>

WalNext ==
    \/ \E policy \in WalSyncPolicy : WalOpen(policy)
    \/ \E key \in WalKeys, value \in WalValues : WalAppendPut(key, value)
    \/ \E key \in WalKeys : WalAppendDelete(key)
    \/ WalSync
    \/ WalTruncate
    \/ WalClose
    \/ WalCrash
    \/ \E key \in WalKeys, value \in WalValues, n \in WalTears :
          WalCrashInAppend(key, value, n)
    \/ \E i \in 1..MaxWalOps, what \in {"magic", "key", "crc"} : CorruptWal(i, what)

SpecWal == Init /\ [][WalNext]_vars

\* ------------------------------------------------------------------------
\* Elections (coordinator/raft_node.rs, coordinator/grpc.rs)
\* ------------------------------------------------------------------------
\* CoordGrpcService::request_vote, the handler the peer's gRPC server runs
request_vote(req) == [term |-> 1, vote_granted |-> req.term >= 1]

\* (peers.len() + 1).div_ceil(2)
majority(peers) == ((Len(peers) + 1) + 1) \div 2

\* RaftNode::become_leader
become_leader(n) ==
    /\ role' = [role EXCEPT ![n] = "Leader"]
    /\ leader_id' = [leader_id EXCEPT ![n] = Some(n)]
    /\ UNCHANGED <<term, voted_for, ballot>>

\* RaftNode::step_down(new_term, leader_id)
step_down(n, new_term, leader) ==
    /\ role' = [role EXCEPT ![n] = "Follower"]
    /\ term' = [term EXCEPT ![n] = new_term]
    /\ leader_id' = [leader_id EXCEPT ![n] = leader]
    /\ voted_for' = [voted_for EXCEPT ![n] = None]
    /\ UNCHANGED ballot

\* RaftNode::start_election, and the locals of the election it opens
start_election(n, peers) ==
    /\ term' = [term EXCEPT ![n] = @ + 1]
    /\ role' = [role EXCEPT ![n] = "Candidate"]
    /\ voted_for' = [voted_for EXCEPT ![n] = Some(n)]
    /\ ballot' = [ballot EXCEPT ![n] = [term |-> term[n] + 1, for |-> n]]
    /\ leader_id' = [leader_id EXCEPT ![n] = None]
    /\ election' = [election EXCEPT ![n] =
                       [active |-> TRUE, new_term |-> term[n] + 1, votes |-> 1,
                        peers |-> peers, next |-> 1]]

\* the election timer fires on a node that is not leader:
\* start_election_and_collect_votes up to its first await (start_election)
StartElection(n, peers) ==
    /\ peers \in PeerLists(n)
    /\ ~election[n].active /\ role[n] # "Leader" /\ term[n] < MaxTerm
    /\ start_election(n, peers)
    /\ UNCHANGED beyondRaft

\* one round of the vote loop: send_request_vote_rpc to the next peer, which
\* fails (the peer is not reached) or is answered by the peer's gRPC service
SendRequestVote(n, reached) ==
    /\ election[n].active /\ election[n].next <= Len(election[n].peers)
    /\ LET req == [term |-> election[n].new_term, candidate_id |-> n]
           resp == request_vote(req)
       IN election' = [election EXCEPT
                         ![n].next = @ + 1,
                         ![n].votes = IF reached /\ resp.vote_granted
                                      THEN @ + 1 ELSE @]
    /\ UNCHANGED <<beyondRaft, role, term, voted_for, ballot, leader_id>>

\* the end of start_election_and_collect_votes: leader with a majority of
\* the votes, follower at new_term without
FinishElection(n) ==
    /\ election[n].active /\ election[n].next > Len(election[n].peers)
    /\ IF election[n].votes >= majority(election[n].peers)
       THEN become_leader(n)
       ELSE step_down(n, election[n].new_term, None)
    /\ election' = [election EXCEPT ![n] = Idle]
    /\ UNCHANGED beyondRaft

\* the vote request of candidate c's running election
VoteRequest(c) == [term |-> election[c].new_term, candidate_id |-> c]

\* c's running election lists n as a peer
Asks(c, n) ==
    /\ election[c].active
    /\ \E i \in DOMAIN election[c].peers : election[c].peers[i] = n

\* RaftNode::handle_request_vote(req) on node n: the term and the vote it
\* leaves, and its response
handle_request_vote(n, req) ==
    IF req.term < term[n]
    THEN [term |-> term[n], voted_for |-> voted_for[n],
          resp |-> [term |-> term[n], vote_granted |-> FALSE]]
    ELSE LET new_term == IF req.term > term[n] THEN req.term ELSE term[n]
             voted == IF req.term > term[n] THEN None ELSE voted_for[n]
             grant == voted = None \/ voted = Some(req.candidate_id)
         IN [term |-> new_term,
             voted_for |-> IF grant THEN Some(req.candidate_id) ELSE voted,
             resp |-> [term |-> new_term, vote_granted |-> grant]]

\* node n handles the vote request of candidate c
HandleRequestVote(n, c) ==
    /\ c # n /\ Asks(c, n)
    /\ LET r == handle_request_vote(n, VoteRequest(c)) IN
       /\ term' = [term EXCEPT ![n] = r.term]
       /\ voted_for' = [voted_for EXCEPT ![n] = r.voted_for]
       /\ ballot' = [ballot EXCEPT ![n] =
                       IF r.resp.vote_granted
                       THEN [term |-> r.term, for |-> r.voted_for[1]] ELSE @]
    /\ UNCHANGED <<beyondRaft, role, leader_id, election>>

\* RaftNode::step_down(new_term, None) called on node n with its term or
\* the next one
StepDown(n, new_term) ==
    /\ new_term \in {term[n], term[n] + 1}
    /\ step_down(n, new_term, None)
    /\ UNCHANGED <<beyondRaft, election>>

RaftNext ==
    \/ \E n \in Nodes, peers \in {<<>>} \cup {Peers(m) : m \in Nodes} :
          StartElection(n, peers)
    \/ \E n \in Nodes, reached \in BOOLEAN : SendRequestVote(n, reached)
    \/ \E n \in Nodes : FinishElection(n)
    \/ \E n \in Nodes, c \in Nodes : HandleRequestVote(n, c)
    \/ \E n \in Nodes, new_term \in 0..MaxTerm : StepDown(n, new_term)

SpecRaft == Init /\ [][RaftNext]_vars

\* ------------------------------------------------------------------------
\* Log replication (coordinator/raft_node.rs, coordinator/grpc.rs)
\* ------------------------------------------------------------------------
MaxLog == 2          \* entries a log holds at most
Payloads == {"a", "b"}

\* CoordGrpcService::append_entries, the handler the peer's gRPC server runs
append_entries(req) ==
    [term |-> 1, success |-> req.term >= 1, conflict_index |-> 0]

\* log.last().map(|e| e.index).unwrap_or(0)
LastIndex(l) == IF l = <<>> THEN 0 ELSE l[Len(l)].index

\* the AppendRequest replicate builds for an entry
AppendRequestOf(leader, entry) ==
    [term |-> entry.term, leader_id |-> leader,
     prev_log_index |-> entry.index - 1, prev_log_term |-> entry.term,
     entries |-> <<entry>>, leader_commit |-> entry.index]

\* the acknowledgements replicate counts: its own, and one for every peer
\* whose send_append_entries_rpc returned Ok with success
RECURSIVE AckCount(_, _, _)
AckCount(peer_list, reached, req) ==
    IF peer_list = <<>> THEN 1
    ELSE (IF Head(peer_list) \in reached /\ append_entries(req).success
          THEN 1 ELSE 0) + AckCount(Tail(peer_list), reached, req)

\* RaftNode::replicate(data) on node n; `reached` are the peers the RPC gets
\* through to
Replicate(n, data, reached) ==
    /\ Len(log[n]) < MaxLog
    /\ IF role[n] # "Leader"
       THEN /\ replicated' = [node |-> n, leader |-> FALSE, res |-> "NotLeader",
                              acks |-> 0, index |-> 0,
                              commit |-> commit_index[n], grew |-> FALSE]
            /\ UNCHANGED <<log, commit_index, last_applied>>
       ELSE LET new_index == LastIndex(log[n]) + 1
                entry == [term |-> term[n], index |-> new_index, data |-> data]
                ack_count == AckCount(self_peers[n], reached,
                                      AppendRequestOf(n, entry))
                ok == ack_count >= majority(self_peers[n])
            IN /\ log' = [log EXCEPT ![n] = Append(@, entry)]
               /\ commit_index' = [commit_index EXCEPT ![n] =
                                      IF ok THEN new_index ELSE @]
               /\ last_applied' = [last_applied EXCEPT ![n] =
                                      IF ok THEN Max(@, new_index) ELSE @]
               /\ replicated' = [node |-> n, leader |-> TRUE,
                                 res |-> IF ok THEN "Ok" ELSE "Internal",
                                 acks |-> ack_count, index |-> new_index,
                                 commit |-> IF ok THEN new_index ELSE commit_index[n],
                                 grew |-> TRUE]
    /\ UNCHANGED <<beyondCoord, raftVars, self_peers>>

\* RaftNode::handle_append_entries(req) on node n: the term, the log and the
\* commit index it leaves, and its response
handle_append_entries(n, req) ==
    IF req.term < term[n]
    THEN [term |-> term[n], log |-> log[n], commit_index |-> commit_index[n],
          resp |-> [term |-> term[n], success |-> FALSE, conflict_index |-> 0]]
    ELSE LET new_term == IF req.term > term[n] THEN req.term ELSE term[n] IN
         IF req.prev_log_index <= Len(log[n])
         THEN LET new_log == log[n] \o req.entries IN
              [term |-> new_term, log |-> new_log,
               commit_index |->
                  IF req.leader_commit > commit_index[n]
                  THEN (IF req.leader_commit < LastIndex(new_log)
                        THEN req.leader_commit ELSE LastIndex(new_log))
                  ELSE commit_index[n],
               resp |-> [term |-> new_term, success |-> TRUE,
                         conflict_index |-> 0]]
         ELSE [term |-> new_term, log |-> log[n],
               commit_index |-> commit_index[n],
               resp |-> [term |-> new_term, success |-> FALSE,
                         conflict_index |-> Len(log[n])]]

\* node n is handed the request for the i-th entry of node l's log
HandleAppendEntries(n, l, i) ==
    /\ n # l /\ i \in DOMAIN log[l] /\ Len(log[n]) < MaxLog
    /\ LET r == handle_append_entries(n, AppendRequestOf(l, log[l][i])) IN
       /\ term' = [term EXCEPT ![n] = r.term]
       /\ log' = [log EXCEPT ![n] = r.log]
       /\ commit_index' = [commit_index EXCEPT ![n] = r.commit_index]
    /\ UNCHANGED <<beyondCoord, role, voted_for, ballot, leader_id, election,
                   last_applied, self_peers, replicated>>

\* the election timer of a coordinator as the server starts it
ElectionTimeout(n) ==
    /\ self_peers[n] = <<>>
    /\ StartElection(n, self_peers[n])

\* the coordinators as the server runs them, and the calls on their logs
ReplNext ==
    \/ \E n \in Nodes : ElectionTimeout(n)
    \/ \E n \in Nodes : FinishElection(n)
    \/ \E n \in Nodes, data \in Payloads, reached \in SUBSET {} :
          Replicate(n, data, reached)
    \/ \E n \in Nodes, l \in Nodes, i \in 1..MaxLog : HandleAppendEntries(n, l, i)

SpecRepl == Init /\ [][ReplNext]_vars

\* ------------------------------------------------------------------------
\* One RaftNode driven through its methods, as tests/node_failure.rs drives
\* it (coordinator/raft_node.rs)
\* ------------------------------------------------------------------------
\* the nodes the calls are made on, and the nodes the requests name
Callees == {"node1"}
Callers == {"node2"}
Snapshots == {"s1", "s2"}

\* log.last().map(|e| e.term).unwrap_or(0)
LastTerm(l) == IF l = <<>> THEN 0 ELSE l[Len(l)].term

\* the AppendRequest send_heartbeats builds for every peer
HeartbeatOf(leader) ==
    [term |-> term[leader], leader_id |-> leader,
     prev_log_index |-> LastIndex(log[leader]),
     prev_log_term |-> LastTerm(log[leader]),
     entries |-> <<>>, leader_commit |-> LastIndex(log[leader])]

\* the fields of node n that a call can change
FieldsOf(n) ==
    [role |-> role[n], term |-> term[n], voted_for |-> voted_for[n],
     log |-> log[n], commit_index |-> commit_index[n],
     last_applied |-> last_applied[n], snapshot |-> snapshot[n]]

\* VoteRequest and AppendRequest (common/raft.rs), every field free
VoteRequests ==
    [term : 0..(MaxTerm + 1), candidate_id : Callers,
     last_log_index : 0..MaxLog, last_log_term : 0..MaxTerm]
LogEntries == [term : 1..MaxTerm, index : 1..MaxLog, data : {"a"}]
AppendRequests ==
    [term : 0..(MaxTerm + 1), leader_id : Callers,
     prev_log_index : 0..MaxLog, prev_log_term : 0..MaxTerm,
     entries : {<<>>} \cup {<<e>> : e \in LogEntries},
     leader_commit : 0..MaxLog]

\* node.handle_request_vote(req)
RecvRequestVote(n, req) ==
    /\ req.candidate_id # n
    /\ LET r == handle_request_vote(n, req) IN
       /\ term' = [term EXCEPT ![n] = r.term]
       /\ voted_for' = [voted_for EXCEPT ![n] = r.voted_for]
       /\ ballot' = [ballot EXCEPT ![n] =
                       IF r.resp.vote_granted
                       THEN [term |-> r.term, for |-> r.voted_for[1]] ELSE @]
       /\ called' = [op |-> "request_vote", node |-> n, req |-> req,
                     resp |-> r.resp, before |-> FieldsOf(n),
                     after |-> [FieldsOf(n) EXCEPT !.term = r.term,
                                                    !.voted_for = r.voted_for]]
    /\ UNCHANGED <<beyondNode, role, leader_id, election, replVars, snapshot,
                   last_heartbeat, quiet>>

\* node.handle_append_entries(req): nothing in it reaches the Instant of the
\* node's task
RecvAppendEntries(n, req) ==
    /\ req.leader_id # n /\ Len(log[n]) + Len(req.entries) <= MaxLog
    /\ LET r == handle_append_entries(n, req) IN
       /\ term' = [term EXCEPT ![n] = r.term]
       /\ log' = [log EXCEPT ![n] = r.log]
       /\ commit_index' = [commit_index EXCEPT ![n] = r.commit_index]
       /\ quiet' = [quiet EXCEPT ![n] = IF r.resp.success THEN 0 ELSE @]
       /\ called' = [op |-> "append_entries", node |-> n, req |-> req,
                     resp |-> r.resp, before |-> FieldsOf(n),
                     after |-> [FieldsOf(n) EXCEPT
                                   !.term = r.term, !.log = r.log,
                                   !.commit_index = r.commit_index]]
    /\ UNCHANGED <<beyondNode, role, voted_for, ballot, leader_id, election,
                   last_applied, self_peers, replicated, snapshot,
                   last_heartbeat>>

\* a retain that drops nothing
retain_all(entries, last_included_index) == entries

\* log.retain(|entry| entry.index > last_included_index)
retain(entries, last_included_index) ==
    SelectSeq(entries, LAMBDA entry : entry.index > last_included_index)

\* node.apply_snapshot(data, last_included_index, last_included_term)
ApplySnapshot(n, data, last_included_index, last_included_term) ==
    /\ snapshot' = [snapshot EXCEPT ![n] = Some(data)]
    /\ log' = [log EXCEPT ![n] = retain(@, last_included_index)]
    /\ commit_index' = [commit_index EXCEPT ![n] = last_included_index]
    /\ last_applied' = [last_applied EXCEPT ![n] = last_included_index]
    /\ term' = [term EXCEPT ![n] = last_included_term]
    /\ called' = [op |-> "apply_snapshot", node |-> n,
                  req |-> [data |-> data,
                           last_included_index |-> last_included_index,
                           last_included_term |-> last_included_term],
                  resp |-> <<>>, before |-> FieldsOf(n),
                  after |-> [FieldsOf(n) EXCEPT
                                !.snapshot = snapshot'[n], !.log = log'[n],
                                !.commit_index = last_included_index,
                                !.last_applied = last_included_index,
                                !.term = last_included_term]]
    /\ UNCHANGED <<beyondNode, role, voted_for, ballot, leader_id, election,
                   self_peers, replicated, last_heartbeat, quiet>>

\* the calls made on one node: its elections, replicate and
\* handle_request_vote
NodeNext ==
    \/ \E n \in Callees : ElectionTimeout(n)
    \/ \E n \in Callees : FinishElection(n)
    \/ \E n \in Callees, data \in {"a"}, reached \in SUBSET {} :
          Replicate(n, data, reached)
    \/ \E n \in Callees, req \in VoteRequests : RecvRequestVote(n, req)

SpecNode == Init /\ [][NodeNext]_vars

\* the calls made on one node: its elections, replicate and apply_snapshot
InstallNext ==
    \/ \E n \in Callees : ElectionTimeout(n)
    \/ \E n \in Callees : FinishElection(n)
    \/ \E n \in Callees, data \in {"a"}, reached \in SUBSET {} :
          Replicate(n, data, reached)
    \/ \E n \in Callees, data \in Snapshots, last_included_index \in 0..MaxLog,
          last_included_term \in 0..MaxTerm :
          ApplySnapshot(n, data, last_included_index, last_included_term)

SpecInstall == Init /\ [][InstallNext]_vars

\* the sleeps of 50 ms after which an election timeout of 150 ms is over
ElectionTicks == 3

\* the heartbeats of a leader of an empty log
Heartbeats ==
    {req \in AppendRequests :
        /\ req.entries = <<>> /\ req.term >= 1
        /\ req.prev_log_index = 0 /\ req.prev_log_term = 0
        /\ req.leader_commit = 0}

\* one round of the loop of start_raft_tasks on node n: the sleep, then an
\* election when the node is not leader and last_heartbeat lies longer back
\* than the timeout; last_heartbeat is set anew after the election (which
\* takes no time) and, on a leader, after send_heartbeats
TimerLoop(n) ==
    /\ ~election[n].active
    /\ quiet' = [quiet EXCEPT ![n] = IF @ > ElectionTicks THEN @ ELSE @ + 1]
    /\ IF role[n] # "Leader" /\ last_heartbeat[n] + 1 > ElectionTicks
       THEN /\ term[n] <= MaxTerm
            /\ start_election(n, self_peers[n])
            /\ last_heartbeat' = [last_heartbeat EXCEPT ![n] = 0]
       ELSE /\ last_heartbeat' = [last_heartbeat EXCEPT ![n] =
                                     IF role[n] = "Leader" THEN 0 ELSE @ + 1]
            /\ UNCHANGED raftVars
    /\ UNCHANGED <<beyondNode, replVars, snapshot, called>>

\* the task of one node, and the heartbeats it is sent
BeatNext ==
    \/ \E n \in Callees : TimerLoop(n)
    \/ \E n \in Callees : FinishElection(n)
    \/ \E n \in Callees, req \in Heartbeats : RecvAppendEntries(n, req)

SpecBeat == Init /\ [][BeatNext]_vars

\* the calls made on one node: its elections and handle_append_entries
AppendNext ==
    \/ \E n \in Callees : ElectionTimeout(n)
    \/ \E n \in Callees : FinishElection(n)
    \/ \E n \in Callees, req \in AppendRequests : RecvAppendEntries(n, req)

SpecAppend == Init /\ [][AppendNext]_vars

\* ------------------------------------------------------------------------
\* The mutexes of one RaftNode under concurrent calls (raft_node.rs)
\* ------------------------------------------------------------------------
\* `field.lock().unwrap()` and the drop of the guard it returned
L(m) == [do |-> "lock", m |-> m]
U(m) == [do |-> "unlock", m |-> m]

\* The lock() calls of each method in program order. A guard bound with
\* `let` is dropped at the end of its block, the guards of one block in
\* reverse order of declaration; the guard of a temporary is dropped at
\* the end of its statement.
LockSteps(op) ==
    CASE op = "handle_request_vote" ->      \* lines 147-148
           <<L("term"), L("voted_for"), U("voted_for"), U("term")>>
      [] op = "handle_append_entries" ->    \* lines 176, 178, 191: entries taken
           <<L("term"), L("log"), L("commit_index"), U("commit_index"),
             U("log"), U("term")>>
      [] op = "handle_append_entries_rejected" ->   \* lines 176, 178
           <<L("term"), L("log"), U("log"), U("term")>>
      [] op = "apply_snapshot" ->           \* lines 72 (save_snapshot), 84-90
           <<L("snapshot"), U("snapshot"), L("log"), L("commit_index"),
             L("last_applied"), L("term"), U("term"), U("last_applied"),
             U("commit_index"), U("log")>>
      [] op = "recover" ->                  \* lines 78 (load_snapshot), 63, 67-68
           <<L("snapshot"), U("snapshot"), L("log"), U("log"),
             L("last_applied"), L("commit_index"), U("commit_index"),
             U("last_applied")>>
      [] op = "start_election" ->           \* lines 284-290
           <<L("term"), L("role"), U("role"), L("voted_for"), U("voted_for"),
             L("leader_id"), U("leader_id"), U("term")>>
      [] op = "step_down" ->                \* lines 276-279
           <<L("role"), U("role"), L("term"), U("term"),
             L("leader_id"), U("leader_id"), L("voted_for"), U("voted_for")>>
      [] op = "replicate" ->                \* lines 253, 329-331 (get_term: 265),
                                            \* 340, 364-366: leader, majority
           <<L("role"), U("role"), L("log"), L("term"), U("term"), U("log"),
             L("peers"), U("peers"), L("commit_index"), L("last_applied"),
             U("last_applied"), U("commit_index")>>
      [] op = "replicate_not_leader" ->     \* lines 253, 261
           <<L("role"), U("role"), L("leader_id"), U("leader_id")>>

Methods == {"handle_request_vote", "handle_append_entries",
            "handle_append_entries_rejected", "apply_snapshot", "recover",
            "start_election", "step_down", "replicate", "replicate_not_leader"}

\* the step thread t is at, None when it is not in a call
StepOf(t) ==
    IF thread[t].op = "none"
    THEN None
    ELSE Some(LockSteps(thread[t].op)[thread[t].pc])

\* a thread enters a method of the node
Enter(t, op) ==
    /\ thread[t] = Resting
    /\ thread' = [thread EXCEPT ![t] = [op |-> op, pc |-> 1]]
    /\ UNCHANGED <<mutex, beyondLocks>>

\* Mutex::lock returns once the mutex is free; until then the thread blocks
Acquire(t) ==
    /\ StepOf(t) # None /\ StepOf(t)[1].do = "lock"
    /\ mutex[StepOf(t)[1].m] = Free
    /\ mutex' = [mutex EXCEPT ![StepOf(t)[1].m] = t]
    /\ thread' = [thread EXCEPT ![t].pc = @ + 1]
    /\ UNCHANGED beyondLocks

\* the guard is dropped; the method returns when it was its last one
Release(t) ==
    /\ StepOf(t) # None /\ StepOf(t)[1].do = "unlock"
    /\ mutex' = [mutex EXCEPT ![StepOf(t)[1].m] = Free]
    /\ thread' = [thread EXCEPT ![t] =
                    IF @.pc = Len(LockSteps(@.op)) THEN Resting
                    ELSE [@ EXCEPT !.pc = @ + 1]]
    /\ UNCHANGED beyondLocks

LockNext ==
    \/ \E t \in Threads, op \in Methods : Enter(t, op)
    \/ \E t \in Threads : Acquire(t)
    \/ \E t \in Threads : Release(t)

SpecLocks == Init /\ [][LockNext]_vars

\* thread t is blocked in lock() on a mutex that thread u holds
WaitsFor(t, u) ==
    /\ StepOf(t) # None /\ StepOf(t)[1].do = "lock"
    /\ mutex[StepOf(t)[1].m] = u

\* ------------------------------------------------------------------------
\* The election timers under a partition (coordinator/raft_node.rs)
\* ------------------------------------------------------------------------
\* a partition cuts one coordinator off; the others still reach each other
Isolate(a) ==
    /\ isolated = {}
    /\ isolated' = {a}
    /\ UNCHANGED beyondNet

TimerNext ==
    \/ \E n \in Nodes : ElectionTimeout(n)
    \/ \E n \in Nodes : FinishElection(n)
    \/ \E a \in Nodes : Isolate(a)

\* every coordinator's task keeps running: its timer fires, and an election
\* it started comes to its end
TimerFairness ==
    \A n \in Nodes : WF_vars(ElectionTimeout(n)) /\ WF_vars(FinishElection(n))

SpecTimer == Init /\ [][TimerNext]_vars /\ TimerFairness

\* ------------------------------------------------------------------------
\* Two-phase uploads of a volume (volume/grpc.rs)
\* ------------------------------------------------------------------------
UploadIds == {"u1", "u2"}
UploadKeys == {"k1"}
Blobs == {"", "v1"}

\* uploads.remove(upload_id) forgotten
uploads_remove_skipped(map, upload_id) == map

\* uploads.remove(upload_id)
uploads_remove(map, upload_id) == [map EXCEPT ![upload_id] = None]

\* the record of a call, in front of the record of the call before it
Called(op, upload_id, ok, state) ==
    <<[op |-> op, id |-> upload_id, ok |-> ok,
       key |-> IF state = None THEN "" ELSE state[1].key,
       blob |-> IF state = None THEN "" ELSE state[1].blob,
       prepared |-> uploads[upload_id] # None], rpc[1]>>

\* VolumeGrpcService::prepare for a blob the coordinator holds; it sends the
\* blob's size and digest, or another digest. `blob` is history: the
\* request does not carry the bytes
Prepare(upload_id, key, blob, digest_of) ==
    /\ isOpen
    /\ LET state == [key |-> key, expected_size |-> ByteLen(blob),
                     expected_blake3 |-> blake3_hash(digest_of),
                     data |-> "", blob |-> blob]
       IN /\ uploads' = [uploads EXCEPT ![upload_id] = Some(state)]
          /\ rpc' = Called("prepare", upload_id, TRUE, Some(state))
    /\ UNCHANGED <<storeVars, beyondGrpc>>

\* VolumeGrpcService::commit
Commit(upload_id) ==
    /\ isOpen
    /\ uploads' = uploads_remove(uploads, upload_id)
    /\ LET found == uploads[upload_id] IN
       IF found = None
          \/ ByteLen(found[1].data) # found[1].expected_size
          \/ blake3_hash(found[1].data) # found[1].expected_blake3
       THEN /\ rpc' = Called("commit", upload_id, FALSE, found)
            /\ UNCHANGED storeVars
       ELSE /\ PutStore(found[1].key, found[1].data)
            /\ rpc' = Called("commit", upload_id, lastRes' = "Ok", found)
    /\ UNCHANGED beyondGrpc

\* VolumeGrpcService::abort
Abort(upload_id) ==
    /\ isOpen
    /\ uploads' = uploads_remove(uploads, upload_id)
    /\ rpc' = Called("abort", upload_id, TRUE, uploads[upload_id])
    /\ UNCHANGED <<storeVars, beyondGrpc>>

\* the volume server: it opens its store, then serves the calls
GrpcNext ==
    \/ \E policy \in StorePolicies : Open(policy)
    \/ \E u \in UploadIds, key \in UploadKeys, blob \in Blobs,
          digest_of \in Blobs : Prepare(u, key, blob, digest_of)
    \/ \E u \in UploadIds : Commit(u)
    \/ \E u \in UploadIds : Abort(u)

SpecGrpc == Init /\ [][GrpcNext]_vars

\* the only step the volume takes by itself is its start
\* ------------------------------------------------------------------------
\* commit and abort of one upload running concurrently (volume/grpc.rs)
\* ------------------------------------------------------------------------
\* the uploads raced for; each is prepared once
RaceIds == UploadIds

\* prepare, for an upload_id not prepared before
PrepareOnce(upload_id, key, blob, digest_of) ==
    /\ isOpen /\ ~tally[upload_id].prepared
    /\ uploads' = [uploads EXCEPT ![upload_id] =
                     Some([key |-> key, expected_size |-> ByteLen(blob),
                           expected_blake3 |-> blake3_hash(digest_of),
                           data |-> "", blob |-> blob])]
    /\ tally' = [tally EXCEPT ![upload_id].prepared = TRUE]
    /\ UNCHANGED <<storeVars, rpc, committing, beyondRace>>

\* commit, lines 97-141: under the uploads mutex the state is taken out of
\* the map; the mutex is released; size and digest are verified on the
\* task's copy. The call answers ok = false here or goes on to the store.
CommitLookup(c, upload_id) ==
    /\ isOpen /\ committing[c] = None
    /\ uploads' = uploads_remove(uploads, upload_id)
    /\ LET found == uploads[upload_id] IN
       IF found = None
       THEN /\ tally' = [tally EXCEPT ![upload_id].misses =
                            IF tally[upload_id].removed_by = "none" THEN @
                            ELSE 1]
            /\ UNCHANGED committing
       ELSE /\ tally' = [tally EXCEPT ![upload_id].removed_by = "commit"]
            /\ IF \/ ByteLen(found[1].data) # found[1].expected_size
                  \/ blake3_hash(found[1].data) # found[1].expected_blake3
               THEN UNCHANGED committing
               ELSE committing' = [committing EXCEPT ![c] =
                                     Some([id |-> upload_id, state |-> found[1]])]
    /\ UNCHANGED <<storeVars, rpc, beyondRace>>

\* commit, lines 143-160: under the store mutex, store.put(key, data), and
\* the answer
CommitPut(c) ==
    /\ committing[c] # None
    /\ PutStore(committing[c][1].state.key, committing[c][1].state.data)
    /\ tally' = [tally EXCEPT ![committing[c][1].id] =
                   [@ EXCEPT !.puts = @ + 1,
                             !.oks = IF lastRes' = "Ok" THEN @ + 1 ELSE @]]
    /\ committing' = [committing EXCEPT ![c] = None]
    /\ UNCHANGED <<grpcVars, beyondRace>>

\* abort, line 171: under the uploads mutex the state is removed
AbortCall(upload_id) ==
    /\ isOpen
    /\ uploads' = uploads_remove(uploads, upload_id)
    /\ tally' = [tally EXCEPT ![upload_id].removed_by =
                   IF uploads[upload_id] = None THEN @ ELSE "abort"]
    /\ UNCHANGED <<storeVars, rpc, committing, beyondRace>>

RaceNext ==
    \/ \E policy \in StorePolicies : Open(policy)
    \/ \E u \in RaceIds, key \in UploadKeys, blob \in Blobs, digest_of \in Blobs :
          PrepareOnce(u, key, blob, digest_of)
    \/ \E c \in Tasks, u \in RaceIds : CommitLookup(c, u)
    \/ \E c \in Tasks : CommitPut(c)
    \/ \E u \in RaceIds : AbortCall(u)

SpecRace == Init /\ [][RaceNext]_vars

SpecGrpcLive == SpecGrpc /\ WF_vars(\E policy \in StorePolicies : Open(policy))

\* ------------------------------------------------------------------------
\* Calls of select_volumes
\* ------------------------------------------------------------------------
SelectVolumes ==
    /\ place_result = None
    /\ place_result' =
          Some(select_volumes(place_replicas, place_key, place_volumes))
    /\ UNCHANGED <<beyondPlace, place_key, place_volumes, place_replicas>>

\* a PlacementManager and the arguments of one call; nothing else runs
PlaceInit ==
    /\ StoreInit /\ RaftInit /\ GrpcInit /\ http = NoRequest /\ CallIdle
    /\ place_key \in PlaceKeys
    /\ place_volumes \in VolumeLists
    /\ place_replicas \in PlaceReplicas
    /\ place_result = None

SpecPlace == PlaceInit /\ [][SelectVolumes]_vars

\* ------------------------------------------------------------------------
\* Mutations through the HTTP API of a coordinator (coordinator/http.rs)
\* ------------------------------------------------------------------------
StatusOk == 200
StatusInternalServerError == 500
StatusTemporaryRedirect == 307

\* what metadata.get_healthy_volumes() hands to put_key: nothing, or three
\* volumes
HealthyListings ==
    {<<>>, <<[volume_id |-> "vol-1", state |-> "Alive"],
             [volume_id |-> "vol-2", state |-> "Alive"],
             [volume_id |-> "vol-3", state |-> "Alive"]>>}

\* put_key: the status it answers with, for what select_volumes returned
put_key(selected) ==
    LET target_volumes == IF selected.tag = "Ok" THEN selected.volumes ELSE <<>>
        simulated_prepare == TRUE
        prepare_ok == \A i \in DOMAIN target_volumes : simulated_prepare
    IN IF ~prepare_ok THEN StatusInternalServerError ELSE StatusOk

\* delete_key: the status it answers with
delete_key(key) == StatusOk

\* POST /:key on coordinator n; the metadata store lists `volumes`, and the
\* volumes of `unreachable` would not answer a prepare: the handler calls no
\* volume and writes no metadata, so it changes no state but its answer
PutKey(n, key, volumes, unreachable) ==
    LET selected == select_volumes(place_replicas, key, volumes)
    IN /\ http' = [node |-> n, op |-> "put", key |-> key, role |-> role[n],
                   status |-> put_key(selected),
                   targets |-> IF selected.tag = "Ok" THEN selected.volumes
                               ELSE <<>>,
                   unreachable |-> unreachable]
       /\ UNCHANGED beyondHttp

\* DELETE /:key on coordinator n
DeleteKey(n, key) ==
    /\ http' = [node |-> n, op |-> "delete", key |-> key, role |-> role[n],
                status |-> delete_key(key), targets |-> <<>>,
                unreachable |-> {}]
    /\ UNCHANGED beyondHttp

\* the coordinators as the server runs them, and the requests of clients
HttpNext ==
    \/ \E n \in Nodes : ElectionTimeout(n)
    \/ \E n \in Nodes : FinishElection(n)
    \/ \E n \in Nodes, key \in PlaceKeys, volumes \in HealthyListings,
          unreachable \in SUBSET VolumeIds :
          PutKey(n, key, volumes, unreachable)
    \/ \E n \in Nodes, key \in PlaceKeys : DeleteKey(n, key)

SpecHttp == Init /\ [][HttpNext]_vars

\* ------------------------------------------------------------------------
\* An Index saved to a snapshot file and loaded back (volume/index.rs)
\* ------------------------------------------------------------------------
MaxExpires == 1

\* BlobLocation: every field is free, expires_at is an Option<u64>
Locations ==
    [shard : {0, 1}, offset : {0}, size : {0, 2}, blake3 : {"", "h1"},
     expires_at : {None} \cup {Some(t) : t \in 0..MaxExpires}]

\* Index: a map from keys to locations
Indexes == UNION {[ks -> Locations] : ks \in SUBSET Keys}

\* index.save_snapshot(path)
IndexSaveSnapshot ==
    /\ snap_path = None
    /\ snap_path' = Some(save_snapshot_file(snap_index))
    /\ UNCHANGED <<beyondCalls, hrwVars, snap_index, snap_loaded>>

\* Index::load_snapshot(path): File::open fails while the file is not there
IndexLoadSnapshot ==
    /\ snap_path # None /\ snap_loaded = None
    /\ snap_loaded' = Some(load_snapshot(snap_path[1]))
    /\ UNCHANGED <<beyondCalls, hrwVars, snap_index, snap_path>>

\* any Index, not yet saved
SnapInit ==
    /\ StoreInit /\ RaftInit /\ GrpcInit /\ PlaceIdle /\ http = NoRequest
    /\ HrwIdle
    /\ snap_index \in Indexes /\ snap_path = None /\ snap_loaded = None

SnapNext == IndexSaveSnapshot \/ IndexLoadSnapshot

SpecSnap == SnapInit /\ [][SnapNext]_vars

\* ------------------------------------------------------------------------
\* Properties of the write-ahead log
\* ------------------------------------------------------------------------
\* the entries of the records of the file that precede its first torn or
\* damaged record
RECURSIVE IntactPrefix(_)
IntactPrefix(file) ==
    IF file = <<>> \/ ~Head(file).ok THEN <<>>
    ELSE <<[sequence |-> Head(file).sequence, op |-> Head(file).op,
            key |-> Head(file).key, value |-> Head(file).value]>>
         \o IntactPrefix(Tail(file))

\* C8: every append returns a sequence number greater than every number
\* returned before it on this log since the last truncate, also across close
\* and re-open (on a log no media fault damaged and whose appends all reached
\* the file).
C8_SequenceIncreases ==
    (lastOp = "append" /\ ~unsynced /\ faults = 0) => lastSeq > prevMax

\* C9: Wal::replay on a log with a torn or damaged record returns Ok and
\* hands the visitor exactly the records before the first such record, in
\* order.
C9_ReplayStopsAtFirstInvalid ==
    replay(walFile) = [res |-> "Ok", visited |-> IntactPrefix(walFile)]

\* a damaged record between two intact ones: replay visits the first only
C9_Witness ==
    /\ Len(walFile) >= 3
    /\ walFile[1].ok /\ ~walFile[2].ok /\ walFile[3].ok
    /\ walFile[2].n = WalFields
    /\ Len(replay(walFile).visited) = 1

\* ------------------------------------------------------------------------
\* Properties of the coordinators
\* ------------------------------------------------------------------------
\* C10: no two coordinators are Leader with the same term.
C10_ElectionSafety ==
    \A a, b \in Nodes :
       (a # b /\ role[a] = "Leader" /\ role[b] = "Leader") => term[a] # term[b]

\* ------------------------------------------------------------------------
\* Properties of the blob store
\* ------------------------------------------------------------------------
\* an open that follows a session of acknowledged calls only, on a volume that
\* was empty before that session
ReopenedAfter(how) ==
    /\ lastOp = "open" /\ sessions = 2 /\ ~dirty /\ down.how = how

\* C1: within one open session get(k) answers the value of the latest put(k)
\* that no delete(k) followed, and None for a key deleted or never written
\* (shadow is the map the session's puts and deletes build up, starting from
\* what get answered right after open).
C1_SessionMap ==
    isOpen => \A k \in Keys : get(index, bloom, segFiles, k) = shadow[k]

\* k1 was put and then deleted in the session: the filter still holds its
\* bits, the index has dropped it and get answers None
C1_Witness ==
    /\ isOpen /\ lastOp = "call" /\ sessions = 1
    /\ Len(walFile) = 2
    /\ walFile[1].op = OP_PUT /\ walFile[1].key = "k1"
    /\ walFile[2].op = OP_DELETE /\ walFile[2].key = "k1"
    /\ bloom_check(bloom, "k1")
    /\ get(index, bloom, segFiles, "k1") = [tag |-> "None"]

\* C2: after puts and deletes, save_snapshot and a clean close, open succeeds
\* and get(k) answers for every key what it answered before the close.
C2_ReopenAfterSnapshot ==
    (ReopenedAfter("close") /\ down.snap) => (lastRes = "Ok" /\ GetAll = pre)

\* C3: with sync policy Always, after a crash between two calls (no
\* save_snapshot since the last put or delete) open succeeds and get(k)
\* answers for every key what it answered before the crash.
C3_CrashRecovery ==
    (ReopenedAfter("crash") /\ down.policy = "Always" /\ ~down.snap)
        => (lastRes = "Ok" /\ GetAll = pre)

\* C4: compact() returns Ok and get(k) answers for every key what it answered
\* immediately before the call.
C4_CompactPreserves ==
    lastOp = "compact" => (lastRes = "Ok" /\ GetAll = pre)

\* C5: after a crash inside compact(), before the directory swap, open
\* succeeds and every key that was live before the compaction is readable
\* with its latest value.
C5_CompactCrashRecovery ==
    ReopenedAfter("crashInCompact")
        => (lastRes = "Ok" /\ \A k \in Keys : pre[k].tag = "Some" => GetAll[k] = pre[k])

\* C6: in every state of an open store every key of the index tests positive
\* in the bloom filter.
C6_NoFalseNegative ==
    isOpen => \A k \in DOMAIN index : bloom_check(bloom, k)

\* opened with a snapshot on disk and no bloom file, the index not empty
C6_Witness ==
    /\ isOpen /\ lastOp = "open" /\ lastRes = "Ok"
    /\ snapFile # NoFile /\ bloomFile = NoFile
    /\ DOMAIN index = Keys

\* C7: get(k) answers bytes only when their BLAKE3 digest equals the blake3
\* of the index entry of k.
C7_DigestVerified ==
    isOpen => \A k \in Keys :
                 LET g == get(index, bloom, segFiles, k) IN
                 g.tag = "Some" => blake3_hash(g.value) = index[k].blake3

\* C11: an entry at an index that is committed on some coordinator
\* (index <= its commit_index) is never accompanied, on any coordinator, by
\* an entry of the same index with another term or payload.
C11_StateMachineSafety ==
    \A a, b \in Nodes :
       \A i \in DOMAIN log[a], j \in DOMAIN log[b] :
          (log[a][i].index = log[b][j].index
           /\ log[a][i].index <= commit_index[a]) => log[a][i] = log[b][j]

\* C12: replicate returns Ok, with commit_index at the new entry, only when
\* more than half of the cluster (the leader and the other coordinators)
\* acknowledged; on a node that is not Leader it returns NotLeader and leaves
\* the log alone.
C12_ReplicateQuorum ==
    /\ replicated.res = "Ok" =>
          /\ 2 * replicated.acks > Cardinality(Nodes)
          /\ replicated.commit = replicated.index
    /\ (replicated.res # "none" /\ ~replicated.leader) =>
          (replicated.res = "NotLeader" /\ ~replicated.grew)

\* C13: once a partition has cut a Leader off from the other coordinators,
\* which are a majority and reach each other, one of them eventually is
\* Leader in a term higher than the term of the Leader that was cut off.
C13_LeaderAfterPartition ==
    \A a \in Nodes :
       [](  (isolated = {a} /\ role[a] = "Leader")
         => <>(\E b \in Nodes \ {a} : role[b] = "Leader" /\ term[b] > term[a]))

\* ------------------------------------------------------------------------
\* Properties of the placement
\* ------------------------------------------------------------------------
\* the same volumes listed in another order
Relisted(volumes) ==
    {l \in VolumeLists :
        /\ Len(l) = Len(volumes)
        /\ {l[i] : i \in DOMAIN l} = {volumes[i] : i \in DOMAIN volumes}}

\* the number of healthy volumes of the list
HealthyCount == Len(HealthyIds(place_volumes))

\* select_volumes on every listing of the same volumes returns what the call
\* returned
SameForEveryListing ==
    \A l \in Relisted(place_volumes) :
       select_volumes(place_replicas, place_key, l) = place_result[1]

\* C14 as stated: select_volumes depends on the key and the set of healthy
\* volumes only, not on the order of the list, and returns min(R, |V|)
\* volumes.
C14_MinOfReplicasAndHealthy ==
    place_result # None =>
       /\ SameForEveryListing
       /\ place_result[1].tag = "Ok"
       /\ Len(place_result[1].volumes) =
             (IF place_replicas < HealthyCount THEN place_replicas
              ELSE HealthyCount)

\* C14, amended: select_volumes depends on the key and the set of healthy
\* volumes only, not on the order of the list; with at least R healthy
\* volumes it returns exactly R volumes, with fewer it returns an error.
C14_Deterministic ==
    place_result # None =>
       /\ SameForEveryListing
       /\ (HealthyCount >= place_replicas) =>
             /\ place_result[1].tag = "Ok"
             /\ Len(place_result[1].volumes) = place_replicas
       /\ (HealthyCount < place_replicas) => place_result[1].tag # "Ok"

\* three healthy volumes, two chosen, and not the first two of the list
C14_Witness ==
    /\ place_result # None /\ place_result[1].tag = "Ok"
    /\ Len(place_volumes) = 3 /\ HealthyCount = 3 /\ place_replicas = 2
    /\ place_result[1].volumes # <<place_volumes[1].volume_id,
                                   place_volumes[2].volume_id>>

\* C15: select_volumes returns NoHealthyVolumes exactly when no listed volume
\* is Alive, InsufficientReplicas{needed: R, available} exactly when between
\* 1 and R-1 volumes are Alive, and otherwise R distinct ids of Alive volumes.
C15_PlacementErrors ==
    place_result # None =>
       LET r == place_result[1]
           alive == {place_volumes[i].volume_id :
                        i \in {j \in DOMAIN place_volumes :
                                  place_volumes[j].state = "Alive"}}
       IN /\ r.tag = "NoHealthyVolumes" <=> alive = {}
          /\ r.tag = "InsufficientReplicas" <=>
                (1 <= Cardinality(alive) /\ Cardinality(alive) < place_replicas)
          /\ r.tag = "InsufficientReplicas" =>
                (r.needed = place_replicas /\ r.available = Cardinality(alive))
          /\ r.tag = "Ok" <=> Cardinality(alive) >= place_replicas
          /\ r.tag = "Ok" =>
                /\ Len(r.volumes) = place_replicas
                /\ Cardinality({r.volumes[i] : i \in DOMAIN r.volumes})
                      = place_replicas
                /\ \A i \in DOMAIN r.volumes : r.volumes[i] \in alive

\* a Draining and an Alive volume with R = 2: one available, two needed
C15_Witness ==
    /\ place_result # None /\ place_replicas = 2
    /\ place_result[1].tag = "InsufficientReplicas"
    /\ place_result[1].available = 1
    /\ \E i \in DOMAIN place_volumes : place_volumes[i].state = "Draining"

\* ------------------------------------------------------------------------
\* Properties of the two-phase uploads
\* ------------------------------------------------------------------------
\* C16: a commit that follows a prepare which returned ok returns ok, the
\* store then answers get(key) with the blob's bytes and the prepared state
\* is gone; and a prepare returns ok only when the bytes it holds have the
\* expected size and BLAKE3.
C16_PrepareThenCommit ==
    /\ (rpc[1].op = "commit" /\ rpc[2].op = "prepare" /\ rpc[2].ok
        /\ rpc[2].id = rpc[1].id) =>
          /\ rpc[1].ok
          /\ get(index, bloom, segFiles, rpc[1].key)
                = [tag |-> "Some", value |-> rpc[1].blob]
          /\ uploads[rpc[1].id] = None
    /\ (rpc[1].op = "prepare" /\ rpc[1].ok) =>
          LET state == uploads[rpc[1].id][1] IN
          /\ ByteLen(state.data) = state.expected_size
          /\ blake3_hash(state.data) = state.expected_blake3

\* C17: abort returns ok and leaves the upload absent from the map and the
\* store untouched, whether or not the upload was prepared; an abort that
\* follows an abort of the same upload returns the same response and
\* changes nothing.
C17_AbortIdempotent ==
    [][\A u \in UploadIds :
          Abort(u) =>
             /\ rpc'[1].ok /\ uploads'[u] = None
             /\ UNCHANGED storeVars
             /\ (rpc[1].op = "abort" /\ rpc[1].id = u) =>
                   (rpc'[1].ok = rpc[1].ok /\ uploads' = uploads)]_vars

\* an abort of a prepared upload, then an abort of the same upload, with
\* another upload prepared and a blob in the store
C17_Witness ==
    /\ rpc[1].op = "abort" /\ rpc[2].op = "abort" /\ rpc[1].id = rpc[2].id
    /\ rpc[2].prepared /\ ~rpc[1].prepared
    /\ \E u \in UploadIds : uploads[u] # None
    /\ DOMAIN index # {}

\* C18: a commit that follows a successful commit of the same upload, whose
\* prepared state is gone, returns ok.
C18_CommitIdempotent ==
    (rpc[1].op = "commit" /\ rpc[2].op = "commit" /\ rpc[2].ok
     /\ rpc[1].id = rpc[2].id) => rpc[1].ok

\* C19: every prepared upload eventually leaves the map.
C19_UploadsExpire ==
    \A u \in UploadIds : [](uploads[u] # None => <>(uploads[u] = None))

\* ------------------------------------------------------------------------
\* Properties of the HTTP API
\* ------------------------------------------------------------------------
\* C20: a coordinator answers a PUT or DELETE of a key as committed only
\* while its role is Leader; as Follower or Candidate it answers with a
\* redirect to the leader.
C20_OnlyLeaderMutates ==
    http.op \in {"put", "delete"} =>
       IF http.role = "Leader" THEN http.status = StatusOk
       ELSE http.status = StatusTemporaryRedirect

\* C21: when the prepare of a target volume of a PUT fails or times out, the
\* coordinator does not answer that the write is committed: it answers with
\* the prepare failure, and no target volume keeps a prepared upload.
C21_PrepareFailureAborts ==
    (/\ http.op = "put"
     /\ \E i \in DOMAIN http.targets : http.targets[i] \in http.unreachable)
       => /\ http.status = StatusInternalServerError
          /\ \A u \in DOMAIN uploads : uploads[u] = None

\* ------------------------------------------------------------------------
\* The replicas of a key while the set of nodes changes (common/hash.rs)
\* ------------------------------------------------------------------------
MaxReplicas == 2
HrwNodes == VolumeIds \cup {"vol-4"}

\* the slices of nodes a caller can pass: every node at most once, any order
NodeLists ==
    {l \in UNION {[1..m -> HrwNodes] : m \in 0..Cardinality(HrwNodes)} :
        \A i, j \in DOMAIN l : i # j => l[i] # l[j]}

SetOf(seq) == {seq[i] : i \in DOMAIN seq}

\* select_replicas(key, nodes, n), called on the nodes there are
SelectReplicas ==
    /\ hrw_selected = None
    /\ hrw_selected' = Some(select_replicas(hrw_key, hrw_nodes, hrw_n))
    /\ UNCHANGED <<beyondCalls, snapVars, hrw_key, hrw_n, hrw_nodes, hrw_last>>

\* node v leaves, and select_replicas is called on the nodes that are left
RemoveNode(v) ==
    /\ hrw_selected # None /\ hrw_last = NoChange /\ v \in SetOf(hrw_nodes)
    /\ hrw_nodes' = SelectSeq(hrw_nodes, LAMBDA x : x # v)
    /\ hrw_selected' = Some(select_replicas(hrw_key, hrw_nodes', hrw_n))
    /\ hrw_last' = [change |-> "removed", node |-> v, nodes |-> hrw_nodes,
                    selected |-> hrw_selected[1]]
    /\ UNCHANGED <<beyondCalls, snapVars, hrw_key, hrw_n>>

\* node v joins at place `at` of the slice, and select_replicas is called on
\* the nodes there are then
AddNode(v, at) ==
    /\ hrw_selected # None /\ hrw_last = NoChange /\ v \notin SetOf(hrw_nodes)
    /\ at \in 0..Len(hrw_nodes)
    /\ hrw_nodes' = SubSeq(hrw_nodes, 1, at) \o <<v>>
                       \o SubSeq(hrw_nodes, at + 1, Len(hrw_nodes))
    /\ hrw_selected' = Some(select_replicas(hrw_key, hrw_nodes', hrw_n))
    /\ hrw_last' = [change |-> "added", node |-> v, nodes |-> hrw_nodes,
                    selected |-> hrw_selected[1]]
    /\ UNCHANGED <<beyondCalls, snapVars, hrw_key, hrw_n>>

\* any key, any nodes, any number of replicas; nothing else runs
HrwInit ==
    /\ StoreInit /\ RaftInit /\ GrpcInit /\ PlaceIdle /\ http = NoRequest
    /\ SnapIdle
    /\ hrw_key \in PlaceKeys /\ hrw_n \in 1..MaxReplicas
    /\ hrw_nodes \in NodeLists
    /\ hrw_selected = None /\ hrw_last = NoChange

HrwNext ==
    \/ SelectReplicas
    \/ \E v \in HrwNodes : RemoveNode(v)
    \/ \E v \in HrwNodes, at \in 0..Cardinality(HrwNodes) : AddNode(v, at)

SpecHrw == HrwInit /\ [][HrwNext]_vars

\* ------------------------------------------------------------------------
\* Properties of the index snapshot
\* ------------------------------------------------------------------------
\* C22: an Index loaded from the snapshot that save_snapshot wrote has
\* exactly the entries of the saved Index, field for field, expires_at
\* included, whether it was None or Some(t) with t >= 0.
C22_SnapshotRoundTrip ==
    snap_loaded # None => snap_loaded[1] = snap_index

\* ------------------------------------------------------------------------
\* Properties of BlobStore::open
\* ------------------------------------------------------------------------
\* the last record of key k that a replay of the WAL visits is a DELETE
DeletedLast(k) ==
    LET visited == replay(walFile).visited
        of_k == {i \in DOMAIN visited : visited[i].key = k}
    IN /\ of_k # {}
       /\ visited[CHOOSE i \in of_k : \A j \in of_k : j <= i].op = OP_DELETE

\* C24: open applies the DELETE records of the WAL after the index has been
\* populated from the snapshot or the segments, so a key whose last operation
\* was a delete is absent from the index of the re-opened store: the scan of
\* the segments does not bring it back.
C24_DeletesSurviveReopen ==
    (lastOp = "open" /\ lastRes = "Ok" /\ sessions = 2 /\ ~dirty)
        => \A k \in Keys : DeletedLast(k) => k \notin DOMAIN index

\* ------------------------------------------------------------------------
\* Properties of the handlers of a RaftNode
\* ------------------------------------------------------------------------
\* C25: handle_request_vote grants the vote exactly when the term of the
\* request is at least the node's term, the node's vote (cleared when the
\* request brings a higher term) is free or already the candidate's, and
\* the candidate's log is at least as up to date as the node's: a higher
\* last_log_term, or the same with a last_log_index at least as large.
C25_VoteGranted ==
    called.op = "request_vote" =>
       LET b == called.before
           req == called.req
           voted == IF req.term > b.term THEN None ELSE b.voted_for
           up_to_date ==
              \/ req.last_log_term > LastTerm(b.log)
              \/ /\ req.last_log_term = LastTerm(b.log)
                 /\ req.last_log_index >= LastIndex(b.log)
       IN called.resp.vote_granted <=>
             /\ req.term >= b.term
             /\ voted = None \/ voted = Some(req.candidate_id)
             /\ up_to_date

\* C26: a Leader or Candidate that handles a RequestVote or AppendEntries
\* request of a higher term than its own takes that term and is a Follower
\* when the handler returns.
C26_HigherTermStepsDown ==
    (/\ called.op \in {"request_vote", "append_entries"}
     /\ called.before.role \in {"Leader", "Candidate"}
     /\ called.req.term > called.before.term)
       => /\ called.after.term = called.req.term
          /\ called.after.role = "Follower"

\* C27: handle_append_entries accepts a request only when the log holds, at
\* prev_log_index, an entry of term prev_log_term (or prev_log_index is 0);
\* a request it does not accept leaves the log as it was, with conflict_index
\* the length of the log; after a request it accepts the log is its former
\* prefix up to prev_log_index followed by the entries of the request (read
\* here as: up to the last of these entries), so that a request delivered
\* twice adds nothing and the entry at place i has index i. The requests are
\* those whose entries continue prev_log_index.
C27_AppendEntriesLog ==
    (/\ called.op = "append_entries"
     /\ \A i \in DOMAIN called.req.entries :
           called.req.entries[i].index = called.req.prev_log_index + i
     /\ \A i \in DOMAIN called.before.log : called.before.log[i].index = i)
       => LET b == called.before
              a == called.after
              req == called.req
              matches ==
                 \/ req.prev_log_index = 0
                 \/ /\ req.prev_log_index \in DOMAIN b.log
                    /\ b.log[req.prev_log_index].term = req.prev_log_term
          IN /\ called.resp.success => (req.term >= b.term /\ matches)
             /\ ~called.resp.success =>
                   /\ a.log = b.log
                   /\ req.term >= b.term =>
                         called.resp.conflict_index = Len(b.log)
             /\ called.resp.success =>
                   LET last == req.prev_log_index + Len(req.entries) IN
                   /\ Len(a.log) >= last
                   /\ SubSeq(a.log, 1, last) =
                         SubSeq(b.log, 1, req.prev_log_index) \o req.entries
                   /\ (Len(b.log) >= last /\ SubSeq(b.log, 1, last) =
                         SubSeq(b.log, 1, req.prev_log_index) \o req.entries)
                         => a.log = b.log
             /\ \A i \in DOMAIN a.log : a.log[i].index = i

\* C28: the election timeout of a node starts anew with every AppendEntries
\* request the node accepts: a node starts an election, and so raises its
\* term, only when more than a timeout has passed since it last accepted one.
C28_HeartbeatsResetTimer ==
    [][\A n \in Nodes :
          (~election[n].active /\ election'[n].active)
             => quiet[n] + 1 > ElectionTicks]_vars

\* the coordinators whose log holds an entry of index i
StoredBy(i) == {m \in Nodes : \E j \in DOMAIN log[m] : log[m][j].index = i}

\* C29: the commit_index of no coordinator covers an index that fewer than a
\* majority of the coordinators store in their logs, and the leader_commit
\* of the requests a Leader builds, for a heartbeat or for an entry, is not
\* above the Leader's commit_index.
C29_CommitNeedsMajority ==
    /\ \A n \in Nodes : \A i \in 1..commit_index[n] :
          2 * Cardinality(StoredBy(i)) > Cardinality(Nodes)
    /\ \A l \in Nodes : role[l] = "Leader" =>
          /\ HeartbeatOf(l).leader_commit <= commit_index[l]
          /\ \A i \in DOMAIN log[l] :
                AppendRequestOf(l, log[l][i]).leader_commit <= commit_index[l]

\* C30: after apply_snapshot(data, last_included_index, last_included_term)
\* the stored snapshot is data, the log holds exactly its former entries of
\* an index above last_included_index, in their order, and commit_index and
\* last_applied are last_included_index.
C30_ApplySnapshot ==
    called.op = "apply_snapshot" =>
       LET b == called.before
           a == called.after
           kept == {i \in DOMAIN b.log :
                       b.log[i].index > called.req.last_included_index}
       IN /\ a.snapshot = Some(called.req.data)
          /\ Len(a.log) = Cardinality(kept)
          /\ a.log = SelectSeq(b.log, LAMBDA e : e.index >
                                         called.req.last_included_index)
          /\ \A i \in DOMAIN a.log :
                a.log[i].index > called.req.last_included_index
          /\ a.commit_index = called.req.last_included_index
          /\ a.last_applied = called.req.last_included_index

\* a snapshot up to index 1 applied to a node whose log held entries 1 and 2
\* and which had stored another snapshot before
C30_Witness ==
    /\ called.op = "apply_snapshot" /\ called.req.last_included_index = 1
    /\ Len(called.before.log) = 2 /\ Len(called.after.log) = 1
    /\ called.before.snapshot # None
    /\ called.before.snapshot # called.after.snapshot

\* C31: a put made while the offset in the current segment N is exactly
\* SEGMENT_SIZE writes its record at offset 0 of segment N + 1.
C31_RotateAtSegmentSize ==
    [][(/\ isOpen /\ current_offset = SEGMENT_SIZE
        /\ lastOp' = "call" /\ lastRes' = "Ok" /\ segFiles' # segFiles)
          => /\ current_segment' = current_segment + 1
             /\ \E k \in DOMAIN index' :
                   /\ index'[k].shard = current_segment + 1
                   /\ index'[k].offset = 0]_vars

\* what stays of index `before` once the keys in `gone` are removed
Without(before, gone) == [k \in DOMAIN before \ gone |-> before[k]]

\* C32: after cleanup_expired ran at time now the index holds no entry with
\* expires_at <= now, every other entry is still there, the count returned
\* is the number of entries removed, and get_if_valid returned none of the
\* removed entries at that time.
C32_CleanupExpired ==
    (lastOp = "cleanup" /\ cleaned.at = now) =>
        LET before == cleaned.before
            due == {k \in DOMAIN before :
                      /\ before[k].expires_at # None
                      /\ before[k].expires_at[1] <= now}
        IN /\ index = Without(before, due)
           /\ cleaned.count = Cardinality(due)
           /\ \A k \in due : get_if_valid(before, k) = None

\* C32 (amended): the entries cleanup_expired removes are those with
\* expires_at < now; an entry with expires_at = now stays, as do the later
\* ones and those without expiry; the count is the number removed, and
\* get_if_valid returned none of the removed entries at that time.
C32_CleanupExpiredStrict ==
    (lastOp = "cleanup" /\ cleaned.at = now) =>
        LET before == cleaned.before
            past == {k \in DOMAIN before :
                       /\ before[k].expires_at # None
                       /\ before[k].expires_at[1] < now}
        IN /\ index = Without(before, past)
           /\ cleaned.count = Cardinality(past)
           /\ \A k \in past : get_if_valid(before, k) = None
           /\ \A k \in DOMAIN index : get_if_valid(before, k) = Some(before[k])

\* a cleanup that removed one entry and kept one whose expires_at is now
C32_Witness ==
    /\ lastOp = "cleanup" /\ cleaned.at = now /\ cleaned.count = 1
    /\ \E k \in DOMAIN index : index[k].expires_at = Some(now)

C33_NoDeadlock ==
    ~ \E t, u \in Threads :
         /\ t # u /\ WaitsFor(t, u) /\ WaitsFor(u, t)
         /\ {StepOf(t)[1].m, StepOf(u)[1].m}
               \subseteq {"term", "log", "commit_index", "last_applied"}

\* C34: no call on a node (start_election, the handlers, step_down,
\* apply_snapshot, the end of an election) makes its current term smaller.
C34_TermNeverDecreases ==
    [][\A n \in Nodes : term'[n] >= term[n]]_vars

\* C35: no call on a node makes its commit_index smaller, and after every
\* call last_applied is at most commit_index, also when a snapshot is
\* applied.
C35_CommitNeverDecreases ==
    [][\A n \in Nodes :
          /\ commit_index'[n] >= commit_index[n]
          /\ last_applied'[n] <= commit_index'[n]]_vars

\* C36: in one term a node gives its vote to one candidate at most (its
\* own vote in start_election included): a vote given in the term of the
\* node's last vote goes to the candidate of that vote, whatever election
\* failures, step_down calls and vote requests came in between.
C36_OneVotePerTerm ==
    [][\A n \in Nodes :
          (ballot[n].for # "" /\ ballot'[n].term = ballot[n].term)
             => ballot'[n].for = ballot[n].for]_vars

\* C38: on a log no media fault damaged, every record that an append wrote
\* to the file in full is visited by a replay of the file, also when the
\* log was re-opened with the torn tail a crash inside an append left.
C38_SyncedRecordsReplayed ==
    faults = 0 =>
        \A i \in DOMAIN walFile :
           (walFile[i].n = WalFields /\ walFile[i].ok)
              => i <= Len(replay(walFile).visited)

\* C39: whatever way concurrent commit and abort calls on one prepared
\* upload interleave, the store gets at most one put for it, at most one
\* commit answers ok, and when an abort took the prepared state out of the
\* map (so before any commit looked it up) no put is made for it.
C39_CommitAbortRace ==
    \A u \in RaceIds :
       /\ tally[u].puts <= 1
       /\ tally[u].oks <= 1
       /\ tally[u].removed_by = "abort" =>
             /\ tally[u].puts = 0
             /\ \A c \in Tasks : committing[c] = None \/ committing[c][1].id # u

\* a commit put the upload while a second commit of it found nothing
C39_Witness ==
    \E u \in RaceIds :
       tally[u].puts = 1 /\ tally[u].oks = 1 /\ tally[u].misses = 1

\* C40: after a crash inside a put (while the WAL record or the segment
\* record is written) open succeeds, and there are a key k and a value v,
\* those of the interrupted put, such that the re-opened store answers for
\* k what it answered before the put or v, and for every other key what it
\* answered before.
C40_CrashInsidePut ==
    (lastOp = "open" /\ sessions = 2 /\ down.how = "crashInPut")
        => /\ lastRes = "Ok"
           /\ \E key \in Keys, value \in Values :
                 /\ GetAll[key] \in {pre[key], [tag |-> "Some", value |-> value]}
                 /\ \A k \in Keys \ {key} : GetAll[k] = pre[k]

\* ------------------------------------------------------------------------
\* Properties of HRW selection
\* ------------------------------------------------------------------------
\* C23: for a key and a set of more than n nodes, the selection of n replicas
\* changes minimally with the set: when a node that was not selected leaves,
\* the selection stays as it was; when a selected node leaves, exactly that
\* member is replaced; when a node joins, at most one member changes.
C23_MinimalChange ==
    LET before == hrw_last.selected
        after == hrw_selected[1]
    IN (hrw_last.change # "none" /\ Len(hrw_last.nodes) > hrw_n) =>
          /\ Len(after) = hrw_n /\ Len(before) = hrw_n
          /\ (hrw_last.change = "removed" /\ hrw_last.node \notin SetOf(before))
                => after = before
          /\ (hrw_last.change = "removed" /\ hrw_last.node \in SetOf(before))
                => /\ SetOf(before) \ SetOf(after) = {hrw_last.node}
                   /\ Cardinality(SetOf(after) \ SetOf(before)) = 1
          /\ hrw_last.change = "added"
                => /\ Cardinality(SetOf(before) \ SetOf(after)) <= 1
                   /\ SetOf(after) \ SetOf(before) \subseteq {hrw_last.node}

\* a selected node of three has left, and another node has taken its place
C23_Witness ==
    /\ hrw_last.change = "removed" /\ Len(hrw_last.nodes) = 3 /\ hrw_n = 2
    /\ hrw_last.node \in SetOf(hrw_last.selected)
    /\ hrw_selected[1] # hrw_last.selected

====
